---- MODULE Spec2Model ----
(***************************************************************************)
(* Model of the BFF HTTP front-end: the connection pool (connection.c),    *)
(* the min-heap timer (timer.c), the worker event loop (worker.c) and the  *)
(* optimized worker (worker_optimized.c) with the byte validator and       *)
(* header-end scan of simd_utils.h and the callbacks of http_handler.c.    *)
(***************************************************************************)
EXTENDS Integers, Sequences, FiniteSets, TLC

(***************************************************************************)
(* Bounds of the model and constants of the program.                       *)
(***************************************************************************)
\* connection.c:8 is 16384 records; the model keeps a small pool.
MaxConnections == 1
\* Number of client connections that ever arrive at the listening socket.
MaxClients == 3
\* The clock advances in steps of TickMs up to MaxTicks steps.
MaxTicks == 4
\* Records in the pool of the pool-level specification.
PoolConnections == 2

REQUEST_TIMEOUT_MS == 5000
TickMs == REQUEST_TIMEOUT_MS \div 2
KEEP_ALIVE_TIMEOUT_MS == 10000
BUFFER_SIZE == 4096
MAX_REQUEST_SIZE == 8192
URL_MAX_LEN == 256
MAX_ACCEPTS_PER_LOOP == 64
MAX_READ_ATTEMPTS == 16
MAX_READ_ATTEMPTS_OPT == 8
MAX_WRITE_ATTEMPTS == 64
MAX_WRITE_ATTEMPTS_OPT == 16
RESPONSE_HEADERS_SIZE == 512
MAX_RESPONSE_SIZE == 65536

\* The worker threads main starts (WORKER_THREADS is 4; two are modelled).
Workers == {1, 2}
\* The thread that runs worker_loop_optimized, and the name of the
\* timer_heap member of its optimized_worker_t (its thread-local worker.c
\* timer_heap is th[OptWorker]).
OptWorker == 1
OptHeap == 3
HeapIds == Workers \cup {OptHeap}

ConnIdx == 1..MaxConnections
\* timer_heap_init(&timer_heap, capacity): the capacity exceeds the pool size.
TimerCapacity == MaxConnections + 1
NodeIdx == 1..TimerCapacity
\* Descriptors the kernel hands out for accepted sockets.
Fds == 1..(MaxConnections + 1)

NoFd == -1
NULL == [w |-> 0, n |-> 0]

STATE_FREE == "Free"
STATE_READING == "Reading"
STATE_WRITING == "Writing"
STATE_KEEP_ALIVE == "KeepAlive"
STATE_CLOSING == "Closing"

Min(a, b) == IF a < b THEN a ELSE b

(***************************************************************************)
(* struct timespec and the monotonic clock.                                *)
(***************************************************************************)
Timespec(sec, nsec) == [tv_sec |-> sec, tv_nsec |-> nsec]

\* The (tv_sec, tv_nsec) comparison used by sift_up, sift_down and remove.
TsLess(a, b) ==
    \/ a.tv_sec < b.tv_sec
    \/ a.tv_sec = b.tv_sec /\ a.tv_nsec < b.tv_nsec

\* The loop test of timer_heap_process_expired: the entry has not expired.
TsAfter(a, b) ==
    \/ a.tv_sec > b.tv_sec
    \/ a.tv_sec = b.tv_sec /\ a.tv_nsec > b.tv_nsec

\* expiry_time = now + timeout_ms, normalised as timer_heap_add does.
AddMs(t, ms) ==
    LET sec  == t.tv_sec + (ms \div 1000)
        nsec == t.tv_nsec + (ms % 1000) * 1000000
    IN  IF nsec >= 1000000000
        THEN Timespec(sec + 1, nsec - 1000000000)
        ELSE Timespec(sec, nsec)

TsToMs(t) == t.tv_sec * 1000 + (t.tv_nsec \div 1000000)

(***************************************************************************)
(* timer.c: the node pool and the min-heap.  A heap record holds           *)
(*   heap  : the array heap[0..size-1] (a sequence, C index i is i+1),     *)
(*   nodes : the node storage, nodes[n] = timer_node_t,                    *)
(*   free  : the free list of the node pool, head first,                   *)
(*   capacity : th->capacity.                                              *)
(* A node pointer is [w |-> worker, n |-> node index].                     *)
(***************************************************************************)
NodeInit == [expiry_time |-> Timespec(0, 0), conn |-> 0, heap_index |-> -1]

\* timer_heap_init + timer_node_pool_init: the loop pushes 0..capacity-1, so
\* the last node is the head of the free list.
timer_heap_init_n(capacity) ==
    [heap  |-> << >>,
     nodes |-> [n \in 1..capacity |-> NodeInit],
     free  |-> [i \in 1..capacity |-> capacity + 1 - i],
     capacity |-> capacity]

\* timer_heap_init(&timer_heap, capacity) as the workers call it.
timer_heap_init == timer_heap_init_n(TimerCapacity)

swap_nodes(H, a, b) ==
    LET na == H.heap[a + 1]
        nb == H.heap[b + 1]
    IN  [H EXCEPT !.heap = [@ EXCEPT ![a + 1] = nb, ![b + 1] = na],
                  !.nodes = [@ EXCEPT ![nb].heap_index = a,
                                      ![na].heap_index = b]]

Expiry(H, i) == H.nodes[H.heap[i + 1]].expiry_time

RECURSIVE sift_up(_, _)
sift_up(H, index) ==
    IF index = 0 THEN H
    ELSE LET parent_index == (index - 1) \div 2
         IN  IF TsLess(Expiry(H, index), Expiry(H, parent_index))
             THEN sift_up(swap_nodes(H, index, parent_index), parent_index)
             ELSE H

\* sift_down reads th->size, passed here as size.
RECURSIVE sift_down(_, _, _)
sift_down(H, index, size) ==
    LET left_child  == 2 * index + 1
        right_child == 2 * index + 2
        s1 == IF left_child < size /\ TsLess(Expiry(H, left_child), Expiry(H, index))
              THEN left_child ELSE index
        smallest == IF right_child < size /\ TsLess(Expiry(H, right_child), Expiry(H, s1))
                    THEN right_child ELSE s1
    IN  IF smallest # index
        THEN sift_down(swap_nodes(H, index, smallest), smallest, size)
        ELSE H


(***************************************************************************)
(* The memory the handlers work on, passed through the operators below as  *)
(* a record s:                                                             *)
(*   conns : connection_pool[], stack : free_connections_stack (top last), *)
(*   used  : pool_used_count,  th[w] : worker w's thread-local timer_heap, *)
(*   epoll[w][fd] : worker w's epoll registrations, socks[fd] : sockets,   *)
(*   lf : the free stack of the pool behind lockfree_pool_get,             *)
(*   backlog : the accept queue of the listening socket,                   *)
(*   out : what the last handler did (observation only).                   *)
(***************************************************************************)
NoReg == [ev |-> "none", ptr |-> 0, armed |-> FALSE, rdhup |-> FALSE]

timer_node_pool_get(H) == Head(H.free)

\* timer_heap_add: fails (returns -1, nothing changed) at capacity or with an
\* empty node pool; otherwise links node and connection and sifts up.
timer_heap_add(s, w, c, timeout_ms, now) ==
    LET H    == s.th[w]
        size == Len(H.heap)
    IN  IF size >= H.capacity \/ H.free = << >> THEN s
        ELSE LET node == timer_node_pool_get(H)
                 H1 == [H EXCEPT
                          !.free = Tail(@),
                          !.nodes[node] = [expiry_time |-> AddMs(now, timeout_ms),
                                           conn |-> c, heap_index |-> size],
                          !.heap = Append(@, node)]
             IN  [s EXCEPT !.th[w] = sift_up(H1, size),
                           !.conns[c].timer_node = [w |-> w, n |-> node]]

\* A removal that always restores the order downwards from the hole.
remove_sift_down_only(H, index) ==
    LET size == Len(H.heap) - 1
        last == H.heap[size + 1]
        cut  == SubSeq(H.heap, 1, size)
    IN  IF index # size
        THEN sift_down([H EXCEPT !.heap = [cut EXCEPT ![index + 1] = last],
                                 !.nodes[last].heap_index = index],
                       index, size)
        ELSE [H EXCEPT !.heap = cut]

\* The heap after the entry at index has been taken out (th->size already
\* decremented, the last entry moved into the hole and sifted).
RemoveAt(H, index) ==
    LET size == Len(H.heap) - 1
        last == H.heap[size + 1]
        cut  == SubSeq(H.heap, 1, size)
    IN  IF index # size
        THEN LET H1 == [H EXCEPT !.heap = [cut EXCEPT ![index + 1] = last],
                                 !.nodes[last].heap_index = index]
             IN  IF index > 0 /\ TsLess(Expiry(H1, index), Expiry(H1, (index - 1) \div 2))
                 THEN sift_up(H1, index)
                 ELSE sift_down(H1, index, size)
        ELSE [H EXCEPT !.heap = cut]

timer_node_pool_release(H, node) == [H EXCEPT !.free = <<node>> \o @]

\* A removal that tests the index range but not th->heap[index] against the
\* node: it removes whatever entry sits at the node's index.
remove_without_identity_test(s, w, c) ==
    LET ptr == s.conns[c].timer_node
    IN  IF ptr = NULL THEN s
        ELSE LET H     == s.th[w]
                 index == s.th[ptr.w].nodes[ptr.n].heap_index
             IN  IF index < 0 \/ index >= Len(H.heap)
                 THEN s
                 ELSE [s EXCEPT
                         !.th[w] = timer_node_pool_release(RemoveAt(H, index),
                                                           H.heap[index + 1]),
                         !.conns[c].timer_node = NULL]

\* timer_heap_remove on worker w's heap.  The node is read through the
\* connection's pointer, which may point into another worker's node storage.
timer_heap_remove(s, w, c) ==
    LET ptr == s.conns[c].timer_node
    IN  IF ptr = NULL THEN s
        ELSE LET H     == s.th[w]
                 index == s.th[ptr.w].nodes[ptr.n].heap_index
             IN  IF \/ index < 0
                    \/ index >= Len(H.heap)
                    \/ [w |-> w, n |-> H.heap[index + 1]] # ptr
                 THEN s
                 ELSE [s EXCEPT
                         !.th[w] = timer_node_pool_release(RemoveAt(H, index), ptr.n),
                         !.conns[c].timer_node = NULL]

\* A timeout computed from the tv_sec fields alone.
next_timeout_whole_seconds(H, now) ==
    IF Len(H.heap) = 0 THEN -1
    ELSE LET diff_ms == (H.nodes[H.heap[1]].expiry_time.tv_sec - now.tv_sec) * 1000
         IN  IF diff_ms > 0 THEN diff_ms ELSE 0

\* timer_heap_get_next_timeout: -1 on an empty heap, else max(0, diff_ms).
timer_heap_get_next_timeout(H, now) ==
    IF Len(H.heap) = 0 THEN -1
    ELSE LET e == Expiry(H, 0)
             nsdiff == e.tv_nsec - now.tv_nsec
             \* C division truncates toward zero
             q == IF nsdiff >= 0 THEN nsdiff \div 1000000
                  ELSE -((-nsdiff) \div 1000000)
             diff_ms == (e.tv_sec - now.tv_sec) * 1000 + q
         IN  IF diff_ms > 0 THEN diff_ms ELSE 0

(***************************************************************************)
(* connection.c: the pool.                                                 *)
(***************************************************************************)
ParserZero ==
    [state |-> "dead", http_errno |-> "HPE_OK", http_major |-> 0, http_minor |-> 0,
     method |-> "DELETE", upgrade |-> 0, content_length |-> 0, nread |-> 0,
     flags |-> {}, tok |-> << >>, hname |-> << >>, data |-> 0]

\* http_parser_init(parser, HTTP_REQUEST): clears the parser, keeps data.
http_parser_init(p) == [ParserZero EXCEPT !.state = "start_req", !.data = p.data]

RespZero ==
    [status |-> 0, hdr_len |-> 0, body_len |-> 0, body |-> << >>, keep_alive_hdr |-> ""]

\* A record as connection_pool_init leaves it (static storage is zeroed).
ConnInit ==
    [fd |-> NoFd, state |-> STATE_FREE, timer_node |-> NULL, keep_alive |-> 0,
     last_active |-> Timespec(0, 0),
     read_buf |-> << >>, bytes_read |-> 0, bytes_sent |-> 0, url |-> << >>,
     parser |-> ParserZero, resp |-> RespZero]

\* A reset that leaves the counters and the url of the last request.
scrub_state_only(conn, c) ==
    [conn EXCEPT !.fd = NoFd, !.state = STATE_READING, !.timer_node = NULL,
                 !.parser = [http_parser_init(conn.parser) EXCEPT !.data = c]]

\* The reset connection_get applies to the record it pops.
Scrub(conn, c) ==
    [conn EXCEPT !.fd = NoFd, !.state = STATE_READING, !.keep_alive = 0,
                 !.bytes_read = 0, !.bytes_sent = 0, !.url = << >>,
                 !.timer_node = NULL,
                 !.parser = [http_parser_init(conn.parser) EXCEPT !.data = c]]

\* connection_get: the popped index, 0 for NULL.
PoolTop(s) == IF s.stack = << >> THEN 0 ELSE s.stack[Len(s.stack)]

\* connection_get under pool_mutex: the index leaves the stack.
pool_pop(s) == [s EXCEPT !.stack = SubSeq(@, 1, Len(@) - 1), !.used = @ + 1]

\* connection_get after the unlock: the field writes on the popped record.
pool_scrub(s, c) == [s EXCEPT !.conns[c] = Scrub(@, c)]

connection_get(s) ==
    IF PoolTop(s) = 0 THEN s ELSE pool_scrub(pool_pop(s), PoolTop(s))

\* The fields connection_release writes before it takes the mutex.
MarkFree(conn) == [conn EXCEPT !.state = STATE_FREE, !.fd = NoFd, !.timer_node = NULL]

\* connection_release under pool_mutex: the index is pushed when the stack
\* has room.
pool_push(s, c) ==
    IF Len(s.stack) < Len(s.conns)
    THEN [s EXCEPT !.stack = Append(@, c), !.used = @ - 1]
    ELSE s

\* A release without the test of conn->state.
release_unguarded(s, c) == pool_push([s EXCEPT !.conns[c] = MarkFree(@)], c)

connection_release(s, c) ==
    IF s.conns[c].state = STATE_FREE THEN s
    ELSE pool_push([s EXCEPT !.conns[c] = MarkFree(@)], c)

(***************************************************************************)
(* The kernel: sockets and epoll.                                          *)
(***************************************************************************)
SockInit ==
    [open |-> FALSE, inbuf |-> << >>, script |-> 1, sent |-> 0,
     peer_closed |-> FALSE, out |-> 0]

\* close(fd): the descriptor is gone and every epoll set forgets it.
sys_close(s, fd) ==
    IF fd \notin Fds THEN s
    ELSE [s EXCEPT !.socks[fd] = SockInit,
                   !.epoll = [w \in Workers |-> [s.epoll[w] EXCEPT ![fd] = NoReg]]]

\* epoll_ctl(epfd of w, EPOLL_CTL_MOD, fd, ev): fails (no change) when fd is
\* not registered in w's epoll set.
epoll_mod(s, w, fd, ev, c, rdhup) ==
    IF fd \notin Fds \/ s.epoll[w][fd] = NoReg THEN s
    ELSE [s EXCEPT !.epoll[w][fd] =
              [ev |-> ev, ptr |-> c, armed |-> TRUE, rdhup |-> rdhup]]

\* A close that forgets connection_release.
close_without_release(s, w, c) ==
    IF s.conns[c].fd = NoFd THEN s
    ELSE timer_heap_remove(sys_close(s, s.conns[c].fd), w, c)

\* worker.c: close_connection_from_worker, run by thread w (its thread-local
\* epoll_fd and timer_heap).
close_connection_from_worker(s, w, c) ==
    IF s.conns[c].fd = NoFd THEN s
    ELSE connection_release(
             timer_heap_remove(sys_close(s, s.conns[c].fd), w, c), c)


(***************************************************************************)
(* Bytes.  Requests are sequences of character codes.                      *)
(***************************************************************************)
CR == 13
LF == 10
SP == 32

\* "GET /health HTTP/1.1\r\nHost: h\r\n\r\n"
HealthReq ==
    <<71, 69, 84, 32, 47, 104, 101, 97, 108, 116, 104, 32, 72, 84, 84, 80, 47, 49, 46, 49, 13, 10, 72, 111, 115, 116, 58, 32, 104, 13, 10, 13, 10>>

\* "GET /health HTTP/1.1\r\nContent-Length: 0\r\n\r\n"
HealthReqCL0 ==
    <<71, 69, 84, 32, 47, 104, 101, 97, 108, 116, 104, 32, 72, 84, 84, 80, 47, 49, 46, 49, 13, 10, 67, 111, 110, 116, 101, 110, 116, 45, 76, 101, 110, 103, 116, 104, 58, 32, 48, 13, 10, 13, 10>>

\* The requests a client may send, and the places where it may pause:
\* after the request line, and after each complete request.
Scripts == <<HealthReq, HealthReqCL0>>
RequestLineLen == Len(<<71, 69, 84, 32, 47, 104, 101, 97, 108, 116, 104, 32, 72, 84, 84, 80, 47, 49, 46, 49, 13, 10>>)
SplitPoints(k) == {RequestLineLen, Len(Scripts[k])}

IsDigit(ch) == ch >= 48 /\ ch <= 57
IsUpper(ch) == ch >= 65 /\ ch <= 90
IsLowerCh(ch) == ch >= 97 /\ ch <= 122
\* isalnum in the C locale
IsAlnum(ch) == IsDigit(ch) \/ IsUpper(ch) \/ IsLowerCh(ch)
Lower(ch) == IF IsUpper(ch) THEN ch + 32 ELSE ch

(***************************************************************************)
(* simd_utils.h                                                            *)
(***************************************************************************)
\* simd_validate_url_chars: every byte printable and none of ' ' \t \n \r.
simd_validate_url_chars(bytes) ==
    \A i \in 1..Len(bytes) :
        LET c == bytes[i]
        IN  /\ ~(c < 32 \/ c > 126)
            /\ ~(c = SP \/ c = 9 \/ c = LF \/ c = CR)

IsHeaderEndAt(buf, i) ==
    buf[i] = CR /\ buf[i + 1] = LF /\ buf[i + 2] = CR /\ buf[i + 3] = LF

\* simd_find_header_end over data[0..len): the offset of the first
\* "\r\n\r\n", or -1 (NULL).
simd_find_header_end(buf, len) ==
    IF len < 4 THEN -1
    ELSE LET hits == {i \in 1..(len - 3) : IsHeaderEndAt(buf, i)}
         IN  IF hits = {} THEN -1
             ELSE (CHOOSE i \in hits : \A j \in hits : i <= j) - 1

(***************************************************************************)
(* http_handler.c: the target check and the parser callbacks.              *)
(***************************************************************************)
is_valid_url_char(c) ==
    \/ IsAlnum(c)
    \/ c \in {47, 45, 95, 46, 63, 61, 38}    \* / - _ . ? = &

\* The C string that starts at offset at of mem: it ends at the first NUL,
\* and the memory after the bytes written so far is zero.
CStringEnd(mem, at) ==
    LET nuls == {i \in (at + 1)..Len(mem) : mem[i] = 0}
    IN  IF nuls = {} THEN Len(mem) + 1
        ELSE CHOOSE i \in nuls : \A j \in nuls : i <= j

\* strstr(mem + at, pat) # NULL for a two-byte pattern
strstr2(mem, at, a, b) ==
    \E i \in (at + 1)..(CStringEnd(mem, at) - 2) : mem[i] = a /\ mem[i + 1] = b

\* validate_url(url, len) with url = mem + at
validate_url(mem, at, len) ==
    /\ ~(len = 0 \/ len >= URL_MAX_LEN)
    /\ mem[at + 1] = 47
    /\ \A i \in 1..len : is_valid_url_char(mem[at + i])
    /\ ~strstr2(mem, at, 46, 46)
    /\ ~strstr2(mem, at, 47, 47)

\* on_url_callback: TRUE when it returns 0
on_url_ok(mem, at, length) ==
    /\ length < URL_MAX_LEN
    /\ validate_url(mem, at, length)

\* http_should_keep_alive for a request
http_should_keep_alive(p) ==
    IF p.http_major > 0 /\ p.http_minor > 0
    THEN "CLOSE" \notin p.flags
    ELSE "KEEP_ALIVE" \in p.flags

\* content_length is a uint64_t that the parser sets to ULLONG_MAX at the
\* start of every message and overwrites only when a Content-Length header
\* is seen; ULLONG_MAX is written -1 here.
ULLONG_MAX == -1

\* on_headers_complete_callback: TRUE when it returns 1 (not -1).  The
\* comparison content_length > 0 is unsigned.
on_headers_complete_ok(p) ==
    /\ ~(p.content_length # 0)
    /\ ~(p.nread > MAX_REQUEST_SIZE)


(***************************************************************************)
(* http_parser_execute (the http-parser library the repository links),     *)
(* reduced to the request grammar the handlers depend on: method, target,  *)
(* version, header lines, end of headers.  The parser is resumable: its    *)
(* position is kept in p.state between calls.  A parse context X holds the *)
(* parser p, the connection's url and keep_alive (written by callbacks),   *)
(* the mark of a target in progress, the offset i and a stop flag.         *)
(***************************************************************************)
MethodNames == [GET |-> <<71, 69, 84>>, POST |-> <<80, 79, 83, 84>>,
                PUT |-> <<80, 85, 84>>, HEAD |-> <<72, 69, 65, 68>>,
                DELETE |-> <<68, 69, 76, 69, 84, 69>>]

IsPrefix(a, bb) == Len(a) <= Len(bb) /\ SubSeq(bb, 1, Len(a)) = a

IsMethodPrefix(tok) == \E m \in DOMAIN MethodNames : IsPrefix(tok, MethodNames[m])

MethodOf(tok) == CHOOSE m \in DOMAIN MethodNames : MethodNames[m] = tok

HttpSlash == <<72, 84, 84, 80, 47>>
HdrContentLength == <<99, 111, 110, 116, 101, 110, 116, 45, 108, 101, 110, 103, 116, 104>>
HdrConnection == <<99, 111, 110, 110, 101, 99, 116, 105, 111, 110>>
HdrUpgrade == <<117, 112, 103, 114, 97, 100, 101>>
ValKeepAlive == <<107, 101, 101, 112, 45, 97, 108, 105, 118, 101>>
ValClose == <<99, 108, 111, 115, 101>>
ValUpgrade == <<117, 112, 103, 114, 97, 100, 101>>

\* token characters of a header field name
IsToken(ch) == IsAlnum(ch) \/ ch \in {33, 35, 36, 37, 38, 39, 42, 43, 45, 46, 94, 95, 96, 124, 126}

IsUrlByte(ch) == ch > 32 /\ ch < 127

RECURSIVE DecimalValue(_)
DecimalValue(digits) ==
    IF digits = << >> THEN 0
    ELSE 10 * DecimalValue(SubSeq(digits, 1, Len(digits) - 1))
         + (digits[Len(digits)] - 48)

ParseError(X, code) ==
    [X EXCEPT !.p.http_errno = code, !.stop = TRUE]

Advance(X, p) == [X EXCEPT !.p = p, !.i = @ + 1]

\* A header line is complete: record what the handlers later read.
HeaderDone(X, next) ==
    LET p == X.p
        name == p.hname
        val  == p.tok
    IN  IF name = HdrContentLength
        THEN IF val = << >> \/ \E k \in 1..Len(val) : ~IsDigit(val[k])
             THEN ParseError(X, "HPE_INVALID_CONTENT_LENGTH")
             ELSE IF "CONTENTLENGTH" \in p.flags
             THEN ParseError(X, "HPE_UNEXPECTED_CONTENT_LENGTH")
             ELSE Advance(X, [p EXCEPT !.content_length = DecimalValue(val),
                                       !.flags = @ \cup {"CONTENTLENGTH"},
                                       !.state = next, !.tok = << >>])
        ELSE LET f == IF name = HdrConnection /\ val = ValKeepAlive THEN {"KEEP_ALIVE"}
                      ELSE IF name = HdrConnection /\ val = ValClose THEN {"CLOSE"}
                      ELSE IF name = HdrConnection /\ val = ValUpgrade THEN {"CONN_UPGRADE"}
                      ELSE IF name = HdrUpgrade THEN {"UPGRADE"}
                      ELSE {}
             IN  Advance(X, [p EXCEPT !.flags = @ \cup f, !.state = next, !.tok = << >>])

\* The end of the header block: on_headers_complete_callback runs; it
\* returns 1, so the parser skips the body and the message is complete.
HeadersComplete(X) ==
    LET p  == X.p
        up == IF ("UPGRADE" \in p.flags /\ "CONN_UPGRADE" \in p.flags) THEN 1 ELSE 0
        p1 == [p EXCEPT !.upgrade = up]
    IN  IF ~on_headers_complete_ok(p1)
        THEN ParseError([X EXCEPT !.p = p1], "HPE_CB_headers_complete")
        ELSE LET ka == http_should_keep_alive(p1)
                 p2 == [p1 EXCEPT !.state = IF ka THEN "start_req" ELSE "dead",
                                  !.nread = 0, !.tok = << >>]
                 X1 == [X EXCEPT !.ka = IF ka THEN 1 ELSE 0, !.complete = TRUE]
             IN  IF up = 1
                 THEN [X1 EXCEPT !.p = p2, !.i = @ + 1, !.stop = TRUE]
                 ELSE Advance(X1, p2)

\* One byte of input.
ParseByte(X, mem) ==
    LET ch == mem[X.i + 1]
        p  == [X.p EXCEPT !.nread = @ + 1]
        st == X.p.state
    IN  CASE st = "dead" -> ParseError(X, "HPE_CLOSED_CONNECTION")
          [] st = "start_req" ->
                IF ch = CR \/ ch = LF THEN Advance(X, X.p)
                ELSE IF IsMethodPrefix(<<ch>>)
                THEN Advance(X, [p EXCEPT !.flags = {}, !.content_length = ULLONG_MAX,
                                          !.tok = <<ch>>, !.state = "method"])
                ELSE ParseError(X, "HPE_INVALID_METHOD")
          [] st = "method" ->
                IF ch = SP
                THEN IF \E m \in DOMAIN MethodNames : MethodNames[m] = p.tok
                     THEN Advance(X, [p EXCEPT !.method = MethodOf(p.tok), !.tok = << >>,
                                               !.state = "spaces_before_url"])
                     ELSE ParseError(X, "HPE_INVALID_METHOD")
                ELSE IF IsMethodPrefix(Append(p.tok, ch))
                THEN Advance(X, [p EXCEPT !.tok = Append(@, ch)])
                ELSE ParseError(X, "HPE_INVALID_METHOD")
          [] st = "spaces_before_url" ->
                IF ch = SP THEN Advance(X, p)
                ELSE IF ch = 47 \/ ch = 42 \/ IsUpper(ch) \/ IsLowerCh(ch)
                THEN Advance([X EXCEPT !.mark = X.i], [p EXCEPT !.state = "url"])
                ELSE ParseError(X, "HPE_INVALID_URL")
          [] st = "url" ->
                IF ch = SP \/ ch = CR \/ ch = LF
                THEN IF ~on_url_ok(mem, X.mark, X.i - X.mark)
                     THEN ParseError(X, "HPE_CB_url")
                     ELSE LET X1 == [X EXCEPT
                                       !.url = SubSeq(mem, X.mark + 1, X.i),
                                       !.mark = -1]
                          IN  IF ch = SP
                              THEN Advance(X1, [p EXCEPT !.state = "version"])
                              ELSE Advance(X1, [p EXCEPT
                                       !.http_major = 0, !.http_minor = 9,
                                       !.state = IF ch = CR THEN "req_line_lf"
                                                 ELSE "hdr_start"])
                ELSE IF IsUrlByte(ch) THEN Advance(X, p)
                ELSE ParseError(X, "HPE_INVALID_URL")
          [] st = "version" ->
                LET k == Len(p.tok)
                IN  IF k < 5
                    THEN IF ch = HttpSlash[k + 1]
                         THEN Advance(X, [p EXCEPT !.tok = Append(@, ch)])
                         ELSE ParseError(X, "HPE_INVALID_CONSTANT")
                    ELSE IF k = 5 /\ IsDigit(ch)
                    THEN Advance(X, [p EXCEPT !.tok = Append(@, ch), !.http_major = ch - 48])
                    ELSE IF k = 6 /\ ch = 46
                    THEN Advance(X, [p EXCEPT !.tok = Append(@, ch)])
                    ELSE IF k = 7 /\ IsDigit(ch)
                    THEN Advance(X, [p EXCEPT !.tok = Append(@, ch), !.http_minor = ch - 48])
                    ELSE IF k = 8 /\ ch = CR
                    THEN Advance(X, [p EXCEPT !.tok = << >>, !.state = "req_line_lf"])
                    ELSE IF k = 8 /\ ch = LF
                    THEN Advance(X, [p EXCEPT !.tok = << >>, !.state = "hdr_start"])
                    ELSE ParseError(X, "HPE_INVALID_VERSION")
          [] st = "req_line_lf" ->
                IF ch = LF THEN Advance(X, [p EXCEPT !.state = "hdr_start"])
                ELSE ParseError(X, "HPE_LF_EXPECTED")
          [] st = "hdr_start" ->
                IF ch = CR THEN Advance(X, [p EXCEPT !.state = "hdrs_lf"])
                ELSE IF ch = LF THEN HeadersComplete([X EXCEPT !.p = p])
                ELSE IF IsToken(ch)
                THEN Advance(X, [p EXCEPT !.tok = <<Lower(ch)>>, !.state = "hdr_field"])
                ELSE ParseError(X, "HPE_INVALID_HEADER_TOKEN")
          [] st = "hdr_field" ->
                IF ch = 58
                THEN Advance(X, [p EXCEPT !.hname = p.tok, !.tok = << >>,
                                          !.state = "hdr_value_ws"])
                ELSE IF IsToken(ch) THEN Advance(X, [p EXCEPT !.tok = Append(@, Lower(ch))])
                ELSE ParseError(X, "HPE_INVALID_HEADER_TOKEN")
          [] st = "hdr_value_ws" ->
                IF ch = SP \/ ch = 9 THEN Advance(X, p)
                ELSE IF ch = CR THEN HeaderDone([X EXCEPT !.p = p], "hdr_lf")
                ELSE IF ch = LF THEN HeaderDone([X EXCEPT !.p = p], "hdr_start")
                ELSE Advance(X, [p EXCEPT !.tok = <<Lower(ch)>>, !.state = "hdr_value"])
          [] st = "hdr_value" ->
                IF ch = CR THEN HeaderDone([X EXCEPT !.p = p], "hdr_lf")
                ELSE IF ch = LF THEN HeaderDone([X EXCEPT !.p = p], "hdr_start")
                ELSE Advance(X, [p EXCEPT !.tok = Append(@, Lower(ch))])
          [] st = "hdr_lf" ->
                IF ch = LF THEN Advance(X, [p EXCEPT !.state = "hdr_start"])
                ELSE ParseError(X, "HPE_LF_EXPECTED")
          [] st = "hdrs_lf" ->
                IF ch = LF THEN HeadersComplete([X EXCEPT !.p = p])
                ELSE ParseError(X, "HPE_LF_EXPECTED")
          [] OTHER -> ParseError(X, "HPE_INVALID_INTERNAL_STATE")

\* The offset of the first CR or LF at or after offset i, len when there is
\* none before len.
ValueRunEnd(mem, i, len) ==
    LET ends == {j \in i..(len - 1) : mem[j + 1] = CR \/ mem[j + 1] = LF}
    IN  IF ends = {} THEN len ELSE CHOOSE j \in ends : \A k \in ends : j <= k

\* The bytes of a header value up to offset j, taken in one step: what
\* ParseByte does in "hdr_value" for each of them.
ParseValueRun(X, mem, j) ==
    [X EXCEPT !.p.nread = @ + (j - X.i),
              !.p.tok = @ \o [k \in 1..(j - X.i) |-> Lower(mem[X.i + k])],
              !.i = j]

RECURSIVE ParseLoop(_, _, _)
ParseLoop(X, mem, len) ==
    IF X.stop \/ X.i >= len THEN X
    ELSE IF X.p.state = "hdr_value" /\ mem[X.i + 1] # CR /\ mem[X.i + 1] # LF
    THEN ParseLoop(ParseValueRun(X, mem, ValueRunEnd(mem, X.i, len)), mem, len)
    ELSE ParseLoop(ParseByte(X, mem), mem, len)

\* At the end of the data a target still in progress is handed to
\* on_url_callback as a piece.
ParseFlush(X, mem, len) ==
    IF X.stop \/ X.mark = -1 THEN X
    ELSE IF ~on_url_ok(mem, X.mark, len - X.mark)
    THEN ParseError(X, "HPE_CB_url")
    ELSE [X EXCEPT !.url = SubSeq(mem, X.mark + 1, len), !.mark = -1]

\* http_parser_execute(&conn->parser, &parser_settings, mem, len) on the
\* connection record conn.  The result holds the updated record, the return
\* value (bytes consumed) and whether on_headers_complete_callback returned 1.
ParseStart(conn) ==
    [p |-> conn.parser, url |-> conn.url, ka |-> conn.keep_alive,
     mark |-> IF conn.parser.state = "url" THEN 0 ELSE -1,
     i |-> 0, stop |-> FALSE, complete |-> FALSE]

ParseRun(X0, mem, len) ==
    IF X0.p.http_errno # "HPE_OK" THEN [X0 EXCEPT !.stop = TRUE]
    ELSE IF len = 0
    THEN IF X0.p.state \in {"dead", "start_req"} THEN X0
         ELSE [X0 EXCEPT !.p.http_errno = "HPE_INVALID_EOF_STATE",
                         !.i = 1, !.stop = TRUE]
    ELSE ParseFlush(ParseLoop(X0, mem, len), mem, len)

ParseResult(conn, X) ==
    [conn   |-> [conn EXCEPT !.parser = X.p, !.url = X.url, !.keep_alive = X.ka],
     parsed |-> X.i,
     complete |-> X.complete]

http_parser_execute(conn, mem, len) ==
    ParseResult(conn, ParseRun(ParseStart(conn), mem, len))


(***************************************************************************)
(* Socket calls.                                                           *)
(***************************************************************************)
\* The lowest descriptor that is not open (what accept4 returns).
LowestFreeFd(s) ==
    LET free == {fd \in Fds : ~s.socks[fd].open}
    IN  IF free = {} THEN 0 ELSE CHOOSE fd \in free : \A g \in free : fd <= g

\* recv(fd, buf + bytes_read, space_left, 0): the kernel hands over what it
\* holds, at most space_left bytes; with nothing held it returns 0 after the
\* peer's FIN and -1/EAGAIN otherwise; on a descriptor that is not open it
\* returns -1/EBADF.
recv(s, fd, space_left) ==
    IF fd \notin Fds \/ ~s.socks[fd].open THEN [n |-> -1, errno |-> "EBADF", data |-> << >>]
    ELSE LET inbuf == s.socks[fd].inbuf
         IN  IF inbuf = << >>
             THEN IF s.socks[fd].peer_closed
                  THEN [n |-> 0, errno |-> "none", data |-> << >>]
                  ELSE [n |-> -1, errno |-> "EAGAIN", data |-> << >>]
             ELSE LET k == Min(Len(inbuf), space_left)
                  IN  [n |-> k, errno |-> "none", data |-> SubSeq(inbuf, 1, k)]

\* The bytes recv took leave the socket.
Consume(s, fd, k) ==
    IF k <= 0 THEN s
    ELSE [s EXCEPT !.socks[fd].inbuf = SubSeq(@, k + 1, Len(@))]

\* memcpy of data into read_buf at offset off; bytes beyond stay as they were.
BufWrite(buf, off, data) ==
    LET buflen  == Len(buf)
        datalen == Len(data)
        newlen  == IF buflen > off + datalen THEN buflen ELSE off + datalen
    IN  [i \in 1..newlen |->
            IF i > off /\ i <= off + datalen THEN data[i - off]
            ELSE IF i <= buflen THEN buf[i] ELSE 0]

\* The repeated-byte scan of do_read (worker.c:195-210): TRUE when more than
\* 128 equal neighbours in a row occur within the first 256 bytes, that is
\* when repeated_count, reset at every unequal pair, reaches 129 at some
\* i < limit.
RepeatedRun(buf, limit) ==
    \E i0 \in 1..(limit - 129) :
        \A k \in 0..128 : buf[i0 + k + 1] = buf[i0 + k]

SuspiciousRepeat(buf, bytes_read) ==
    bytes_read > 1024 /\ RepeatedRun(buf, Min(bytes_read, 256))

Note(s, what, c) == [s EXCEPT !.out = [op |-> what, c |-> c]]


(***************************************************************************)
(* http_handler.c: routing and response preparation.                       *)
(***************************************************************************)
bonuses_json == <<123, 34, 98, 111, 110, 117, 115, 101, 115, 34, 58, 91, 49, 48, 44, 50, 48, 44, 51, 48, 93, 125>>
settings_json == <<123, 34, 115, 101, 116, 116, 105, 110, 103, 115, 34, 58, 123, 34, 116, 104, 101, 109, 101, 34, 58, 34, 100, 97, 114, 107, 34, 125, 125>>
games_json == <<123, 34, 103, 97, 109, 101, 115, 34, 58, 91, 34, 99, 104, 101, 115, 115, 34, 44, 34, 112, 111, 107, 101, 114, 34, 93, 125>>
health_json == <<123, 34, 115, 116, 97, 116, 117, 115, 34, 58, 34, 79, 75, 34, 125>>
not_found_json == <<123, 34, 101, 114, 114, 111, 114, 34, 58, 34, 78, 111, 116, 32, 70, 111, 117, 110, 100, 34, 125>>
bad_request_json == <<123, 34, 101, 114, 114, 111, 114, 34, 58, 34, 66, 97, 100, 32, 82, 101, 113, 117, 101, 115, 116, 34, 125>>
internal_error_json == <<123, 34, 101, 114, 114, 111, 114, 34, 58, 34, 73, 110, 116, 101, 114, 110, 97, 108, 32, 83, 101, 114, 118, 101, 114, 32, 69, 114, 114, 111, 114, 34, 125>>
method_not_allowed_json == <<123, 34, 101, 114, 114, 111, 114, 34, 58, 34, 77, 101, 116, 104, 111, 100, 32, 78, 111, 116, 32, 65, 108, 108, 111, 119, 101, 100, 34, 125>>

\* routes_init: the table from path to body
routes ==
    { <<<<47, 98, 111, 110, 117, 115, 101, 115>>, bonuses_json>>,
      <<<<47, 115, 101, 116, 116, 105, 110, 103, 115>>, settings_json>>,
      <<<<47, 103, 97, 109, 101, 115>>, games_json>>,
      <<<<47, 104, 101, 97, 108, 116, 104>>, health_json>> }

\* g_hash_table_lookup(routes, url_copy): the body, or << >> for NULL
g_hash_table_lookup(path) ==
    IF \E r \in routes : r[1] = path
    THEN (CHOOSE r \in routes : r[1] = path)[2]
    ELSE << >>

\* A routing key that keeps the query string.
KeepQuery(url) == url

\* url_copy cut at the first '?'
CutQuery(url) ==
    LET qs == {i \in 1..Len(url) : url[i] = 63}
    IN  IF qs = {} THEN url
        ELSE SubSeq(url, 1, (CHOOSE i \in qs : \A j \in qs : i <= j) - 1)

RECURSIVE DecimalDigits(_)
DecimalDigits(n) == IF n < 10 THEN 1 ELSE 1 + DecimalDigits(n \div 10)

\* The two texts of keep_alive_hdr (http_handler.c:231-236).
ConnectionKeepAlive == "Connection: keep-alive\r\nKeep-Alive: timeout=10\r\n"
ConnectionClose == "Connection: close\r\n"

keep_alive_hdr(keep_alive) ==
    IF keep_alive # 0 THEN ConnectionKeepAlive ELSE ConnectionClose

\* The length snprintf reports for the header block (http_handler.c:239-248).
HeaderLen(status_text_len, body_len, keep_alive) ==
      (9 + 3 + 1 + status_text_len + 2)      \* HTTP/1.1 %d %s CRLF
    + 32                                     \* Content-Type: application/json
    + (16 + DecimalDigits(body_len) + 2)     \* Content-Length: %zu
    + 17                                     \* Server: BFF/1.0
    + 33                                     \* X-Content-Type-Options: nosniff
    + 23                                     \* X-Frame-Options: DENY
    + (IF keep_alive # 0 THEN 48 ELSE 19)    \* Connection / Keep-Alive
    + 2

\* A dispatcher that prepares the response and leaves conn->state as it is.
prepare_response_only(conn) ==
    LET url_copy == CutQuery(SubSeq(conn.url, 1, Min(Len(conn.url), URL_MAX_LEN - 1)))
        found    == g_hash_table_lookup(url_copy)
        r == IF Len(url_copy) = 0 \/ url_copy[1] # 47
             THEN [status |-> 400, text |-> 11, body |-> bad_request_json, ka |-> 0]
             ELSE IF conn.parser.method # "GET"
             THEN [status |-> 405, text |-> 18, body |-> method_not_allowed_json, ka |-> 0]
             ELSE IF found = << >>
             THEN [status |-> 404, text |-> 9, body |-> not_found_json, ka |-> 0]
             ELSE [status |-> 200, text |-> 2, body |-> found, ka |-> conn.keep_alive]
    IN  [conn EXCEPT
           !.keep_alive = r.ka,
           !.resp = [status |-> r.status,
                     hdr_len |-> HeaderLen(r.text, Len(r.body), r.ka),
                     body_len |-> Len(r.body), body |-> r.body,
                     keep_alive_hdr |-> keep_alive_hdr(r.ka)],
           !.bytes_sent = 0]

\* handle_request_and_prepare_response on a connection record
handle_request_and_prepare_response(conn) ==
    LET url_copy == CutQuery(SubSeq(conn.url, 1, Min(Len(conn.url), URL_MAX_LEN - 1)))
        bad      == Len(url_copy) = 0 \/ url_copy[1] # 47
        found    == g_hash_table_lookup(url_copy)
        r == IF bad
             THEN [status |-> 400, text |-> 11, body |-> bad_request_json, ka |-> 0]
             ELSE IF conn.parser.method # "GET"
             THEN [status |-> 405, text |-> 18, body |-> method_not_allowed_json, ka |-> 0]
             ELSE IF found = << >>
             THEN [status |-> 404, text |-> 9, body |-> not_found_json, ka |-> 0]
             ELSE [status |-> 200, text |-> 2, body |-> found, ka |-> conn.keep_alive]
        header_len == HeaderLen(r.text, Len(r.body), r.ka)
        \* the header block did not fit: the 500 answer
        r2 == IF header_len >= RESPONSE_HEADERS_SIZE
              THEN [status |-> 500, body |-> internal_error_json, ka |-> 0,
                    hdr_len |-> 36 + 32 + (16 + DecimalDigits(Len(internal_error_json)) + 2)
                                + 19 + 2,
                    keep_alive_hdr |-> ConnectionClose]
              ELSE [status |-> r.status, body |-> r.body, ka |-> r.ka,
                    hdr_len |-> header_len,
                    keep_alive_hdr |-> keep_alive_hdr(r.ka)]
    IN  [conn EXCEPT
           !.keep_alive = r2.ka,
           !.resp = [status |-> r2.status, hdr_len |-> r2.hdr_len,
                     body_len |-> Len(r2.body), body |-> r2.body,
                     keep_alive_hdr |-> r2.keep_alive_hdr],
           !.bytes_sent = 0,
           !.state = STATE_WRITING]


(***************************************************************************)
(* worker.c: do_write, do_read, the event handlers.  w is the thread that  *)
(* runs the handler, now the reading of the monotonic clock.               *)
(***************************************************************************)
\* An iovec that ignores the offset: the whole response again.
whole_iov(iov0_len, iov1_len, offset) == <<iov0_len, iov1_len>>

\* The iovec do_write hands to writev at offset bytes_sent (worker.c:284-300):
\* the lengths of adjusted_iov[0] and adjusted_iov[1].
adjusted_iov(iov0_len, iov1_len, offset) ==
    IF offset < iov0_len
    THEN <<iov0_len - offset, iov1_len>>
    ELSE <<iov1_len - (offset - iov0_len), 0>>

\* The iovec of do_write_optimized (worker_optimized.c:482-503): the lengths
\* of iov[0] and, when iov_count is 2, of iov[1].
adjusted_iov_optimized(iov0_len, iov1_len, bytes_sent) ==
    IF bytes_sent < iov0_len
    THEN <<iov0_len - bytes_sent,
           IF (iov0_len + iov1_len) - bytes_sent > iov0_len - bytes_sent
           THEN iov1_len ELSE 0>>
    ELSE <<iov1_len - (bytes_sent - iov0_len), 0>>

\* The bytes one writev call is asked to send.
IovLen(iov) == iov[1] + iov[2]

\* Bytes are written as runs [seg, at, len]: len bytes of response_iov[seg]
\* from offset at.  A sequence of runs is kept in its shortest form: a run
\* that continues the last one is merged into it, an empty run is dropped.
AppendRun(runs, r) ==
    IF r.len <= 0 THEN runs
    ELSE IF runs # << >>
            /\ runs[Len(runs)].seg = r.seg
            /\ runs[Len(runs)].at + runs[Len(runs)].len = r.at
    THEN [runs EXCEPT ![Len(runs)].len = @ + r.len]
    ELSE Append(runs, r)

\* The n bytes of the response from offset from: header, then body.
ResponseBytes(resp, from, n) ==
    LET in_hdr == Min(n, IF from < resp.hdr_len THEN resp.hdr_len - from ELSE 0)
    IN  AppendRun(AppendRun(<< >>, [seg |-> 0, at |-> from, len |-> in_hdr]),
                  [seg |-> 1,
                   at |-> IF from < resp.hdr_len THEN 0 ELSE from - resp.hdr_len,
                   len |-> n - in_hdr])

\* An iovec whose first base is not advanced past the bytes already sent.
base_at_start(iov0_len, iov1_len, offset, optimized) ==
    IF offset < iov0_len
    THEN <<[seg |-> 0, at |-> 0], [seg |-> 1, at |-> 0]>>
    ELSE <<[seg |-> 1, at |-> 0], [seg |-> 1, at |-> 0]>>

\* The iov_base of the two entries handed to writev at offset bytes_sent
\* (worker.c:288-299, worker_optimized.c:486-503); the second entry of the
\* body-only case is NULL in do_write and not set in do_write_optimized, its
\* length is 0 or it is outside iov_count.
iov_base(iov0_len, iov1_len, offset, optimized) ==
    IF offset < iov0_len
    THEN <<[seg |-> 0, at |-> offset], [seg |-> 1, at |-> 0]>>
    ELSE <<[seg |-> 1, at |-> offset - iov0_len], [seg |-> 1, at |-> 0]>>

\* The lengths of the entries handed to writev.
iov_len(iov0_len, iov1_len, offset, optimized) ==
    IF optimized THEN adjusted_iov_optimized(iov0_len, iov1_len, offset)
    ELSE adjusted_iov(iov0_len, iov1_len, offset)

\* The first n bytes of what one writev call is asked to send, in the order
\* of the iovec, appended to the runs acc.
Submitted(acc, resp, offset, optimized, n) ==
    LET base == iov_base(resp.hdr_len, resp.body_len, offset, optimized)
        len  == iov_len(resp.hdr_len, resp.body_len, offset, optimized)
    IN  AppendRun(AppendRun(acc, [seg |-> base[1].seg, at |-> base[1].at,
                                  len |-> Min(n, len[1])]),
                  [seg |-> base[2].seg, at |-> base[2].at,
                   len |-> Min(n - Min(n, len[1]), len[2])])

\* writev as the kernel answers it: each call takes at most wr.chunk bytes of
\* the iovec while the send buffer has room (wr.room bytes in all), then
\* -1/EAGAIN.  The result is the bytes sent, the attempts made and how the
\* loop ended.
RECURSIVE WriteLoop(_, _, _, _, _, _)
WriteLoop(bytes_sent, resp, write_attempts, max_attempts, optimized, wr) ==
    IF ~(bytes_sent < resp.hdr_len + resp.body_len /\ write_attempts < max_attempts)
    THEN [bytes_sent |-> bytes_sent, attempts |-> write_attempts, end |-> "done",
          room |-> wr.room]
    ELSE IF wr.room = 0
    THEN [bytes_sent |-> bytes_sent, attempts |-> write_attempts, end |-> "EAGAIN",
          room |-> 0]
    ELSE LET iov == iov_len(resp.hdr_len, resp.body_len, bytes_sent, optimized)
             nwritten == Min(Min(wr.chunk, wr.room), IovLen(iov))
         IN  WriteLoop(bytes_sent + nwritten, resp, write_attempts + 1,
                       max_attempts, optimized, [wr EXCEPT !.room = @ - nwritten])

\* The bytes the socket took in the writev calls of that loop, appended to
\* acc: each call takes the first nwritten bytes of what it was handed (the
\* test of Len(acc) only makes acc a value before the next call).
RECURSIVE Handed(_, _, _, _, _, _, _)
Handed(acc, bytes_sent, resp, write_attempts, max_attempts, optimized, wr) ==
    IF Len(acc) >= 0
       /\ (\/ ~(bytes_sent < resp.hdr_len + resp.body_len /\ write_attempts < max_attempts)
           \/ wr.room = 0)
    THEN acc
    ELSE LET iov == iov_len(resp.hdr_len, resp.body_len, bytes_sent, optimized)
             nwritten == Min(Min(wr.chunk, wr.room), IovLen(iov))
         IN  Handed(Submitted(acc, resp, bytes_sent, optimized, nwritten),
                    bytes_sent + nwritten, resp, write_attempts + 1,
                    max_attempts, optimized, [wr EXCEPT !.room = @ - nwritten])

\* The client receives what writev sent.
Deliver(s, fd, k) ==
    IF fd \in Fds THEN [s EXCEPT !.socks[fd].out = @ + k, !.wire = @ + k] ELSE s

TotalLen(conn) == conn.resp.hdr_len + conn.resp.body_len

\* A reset that leaves the url of the last request in place.
reset_without_url(conn) ==
    [conn EXCEPT !.state = STATE_KEEP_ALIVE,
                 !.parser = http_parser_init(@),
                 !.bytes_read = 0,
                 !.bytes_sent = 0]

\* The record prepared for the next request of a kept-alive connection
\* (worker.c:326-330).
keep_alive_reset(conn) ==
    [conn EXCEPT !.state = STATE_KEEP_ALIVE,
                 !.parser = http_parser_init(@),
                 !.bytes_read = 0,
                 !.bytes_sent = 0,
                 !.url = << >>]

\* An end of do_write that gives the connection up when writev returns
\* EAGAIN.
eagain_closes(s1, r, w, c, now) ==
    IF r.end = "EAGAIN" \/ r.attempts >= MAX_WRITE_ATTEMPTS
    THEN Note(close_connection_from_worker(s1, w, c), "write_wait", c)
    ELSE Note(close_connection_from_worker(s1, w, c), "write_done_close", c)

\* do_write after its writev loop ended as r says; s1 is the memory then.
do_write_end(s1, r, w, c, now) ==
    IF r.end = "EAGAIN"
    THEN Note(epoll_mod(s1, w, s1.conns[c].fd, "out", c, FALSE), "write_wait", c)
    ELSE IF r.attempts >= MAX_WRITE_ATTEMPTS
    THEN Note(close_connection_from_worker(s1, w, c), "write_closed", c)
    ELSE IF s1.conns[c].keep_alive # 0
    THEN Note(timer_heap_add(
                  epoll_mod([s1 EXCEPT !.conns[c] = keep_alive_reset(@)],
                            w, s1.conns[c].fd, "in", c, FALSE),
                  w, c, KEEP_ALIVE_TIMEOUT_MS, now),
              "write_keepalive", c)
    ELSE Note(close_connection_from_worker(s1, w, c), "write_done_close", c)

\* The memory after the writev loop sent up to r.bytes_sent.
Sent(s, r, c) ==
    Deliver([s EXCEPT !.conns[c].bytes_sent = r.bytes_sent],
            s.conns[c].fd, r.bytes_sent - s.conns[c].bytes_sent)

do_write_loop(s, r, w, c, now) == do_write_end(Sent(s, r, c), r, w, c, now)

do_write(s, w, c, now, wr) ==
    IF TotalLen(s.conns[c]) > MAX_RESPONSE_SIZE
    THEN Note(close_connection_from_worker(s, w, c), "write_closed", c)
    ELSE do_write_loop(s, WriteLoop(s.conns[c].bytes_sent, s.conns[c].resp, 0,
                                    MAX_WRITE_ATTEMPTS, FALSE, wr),
                       w, c, now)

\* The recv loop of do_read.  The result holds the memory after the loop,
\* the last nread and errno, and whether the loop closed the connection.
\* Received(s, r, c): the memory after recv returned r into the buffer of c.
Received(s, r, c) ==
    IF r.n > 0
    THEN [Consume(s, s.conns[c].fd, r.n) EXCEPT
            !.conns[c].read_buf = BufWrite(@, s.conns[c].bytes_read, r.data),
            !.conns[c].bytes_read = @ + r.n]
    ELSE s

RECURSIVE ReadLoop(_, _, _, _)
ReadChecks(s1, r, w, c, read_attempts) ==
    IF r.n > 0 /\ (s1.conns[c].bytes_read > MAX_REQUEST_SIZE
                   \/ SuspiciousRepeat(s1.conns[c].read_buf, s1.conns[c].bytes_read))
    THEN [s |-> close_connection_from_worker(s1, w, c), closed |-> TRUE,
          nread |-> r.n, errno |-> r.errno]
    ELSE IF read_attempts + 1 > MAX_READ_ATTEMPTS
            \/ ~(r.n > 0 /\ s1.conns[c].bytes_read < BUFFER_SIZE)
    THEN [s |-> s1, closed |-> FALSE, nread |-> r.n, errno |-> r.errno]
    ELSE ReadLoop(s1, w, c, read_attempts + 1)

ReadStep(s, r, w, c, read_attempts) ==
    ReadChecks(Received(s, r, c), r, w, c, read_attempts)

\* A recv loop without space_left: every recv is asked for BUFFER_SIZE bytes.
read_loop_whole_buffer(s, w, c, read_attempts) ==
    ReadStep(s, recv(s, s.conns[c].fd, BUFFER_SIZE), w, c, read_attempts)

ReadLoop(s, w, c, read_attempts) ==
    IF BUFFER_SIZE - s.conns[c].bytes_read = 0
    THEN [s |-> close_connection_from_worker(s, w, c), closed |-> TRUE,
          nread |-> 0, errno |-> "none"]
    ELSE ReadStep(s, recv(s, s.conns[c].fd, BUFFER_SIZE - s.conns[c].bytes_read),
                  w, c, read_attempts)

\* do_read from the checks that follow http_parser_execute (worker.c:227);
\* s3 is the memory with the parser's writes, parsed its return value.
do_read_checks(s3, parsed, w, c, now, wr) ==
    IF s3.conns[c].parser.http_errno # "HPE_OK" /\ s3.conns[c].parser.http_errno # "HPE_PAUSED"
    THEN Note(close_connection_from_worker(s3, w, c), "read_parse_error", c)
    ELSE IF parsed # s3.conns[c].bytes_read /\ s3.conns[c].parser.http_errno # "HPE_PAUSED"
    THEN Note(close_connection_from_worker(s3, w, c), "read_unparsed", c)
    ELSE IF s3.conns[c].parser.http_major # 1
            \/ (s3.conns[c].parser.http_minor # 0 /\ s3.conns[c].parser.http_minor # 1)
    THEN Note(close_connection_from_worker(s3, w, c), "read_version", c)
    ELSE IF s3.conns[c].parser.upgrade # 0
    THEN Note(close_connection_from_worker(s3, w, c), "read_upgrade", c)
    ELSE IF s3.conns[c].state = STATE_READING
    THEN IF s3.conns[c].bytes_read >= MAX_REQUEST_SIZE
         THEN Note(close_connection_from_worker(s3, w, c), "read_too_big", c)
         ELSE Note(epoll_mod(s3, w, s3.conns[c].fd, "in", c, FALSE), "read_rearmed", c)
    ELSE do_write([timer_heap_remove(s3, w, c) EXCEPT
                     !.conns[c] = handle_request_and_prepare_response(@)],
                  w, c, now, wr)

do_read_parsed(s, P, w, c, now, wr) ==
    do_read_checks([s EXCEPT !.conns[c] = P.conn], P.parsed, w, c, now, wr)

\* do_read from the test that follows the recv loop (worker.c:219).
do_read_after_loop(L, w, c, now, wr) ==
    IF L.closed THEN Note(L.s, "read_closed", c)
    ELSE IF L.nread = 0 \/ (L.nread < 0 /\ L.errno # "EAGAIN")
    THEN Note(close_connection_from_worker(L.s, w, c), "read_eof", c)
    ELSE do_read_parsed(L.s,
                        http_parser_execute(L.s.conns[c], L.s.conns[c].read_buf,
                                            L.s.conns[c].bytes_read),
                        w, c, now, wr)

do_read(s, w, c, now, wr) ==
    do_read_after_loop(
        ReadLoop(timer_heap_add(
                     timer_heap_remove([s EXCEPT !.conns[c].state = STATE_READING], w, c),
                     w, c, REQUEST_TIMEOUT_MS, now),
                 w, c, 0),
        w, c, now, wr)

\* handle_connection_event(conn, events)
\* The second test of handle_connection_event (worker.c:161).
handle_write_event(s1, w, c, events, now, wr) ==
    IF s1.conns[c].state = STATE_WRITING /\ "OUT" \in events
    THEN do_write(s1, w, c, now, wr)
    ELSE s1

\* handle_connection_event after clock_gettime(&conn->last_active)
\* (worker.c:148).
handle_live_event(s, w, c, events, now, wr) ==
    IF events \cap {"ERR", "HUP"} # {}
    THEN Note(close_connection_from_worker(s, w, c), "event_hup", c)
    ELSE handle_write_event(
             IF (s.conns[c].state = STATE_READING \/ s.conns[c].state = STATE_KEEP_ALIVE)
                /\ "IN" \in events
             THEN do_read(s, w, c, now, wr)
             ELSE Note(s, "event_nothing", c),
             w, c, events, now, wr)

\* A handler without the test of conn->state at its head.
handle_without_state_test(s, w, c, events, now, wr) ==
    handle_live_event([s EXCEPT !.conns[c].last_active = now], w, c, events, now, wr)

handle_connection_event(s, w, c, events, now, wr) ==
    IF s.conns[c].state = STATE_CLOSING \/ s.conns[c].state = STATE_FREE
    THEN Note(s, "event_ignored", c)
    ELSE handle_live_event([s EXCEPT !.conns[c].last_active = now],
                           w, c, events, now, wr)


\* accept4 on the listening socket: the head of the accept queue gets the
\* lowest free descriptor; 0 stands for -1 (EAGAIN on an empty queue, EMFILE
\* with no descriptor left).
accept4(s) ==
    IF s.backlog = << >> \/ LowestFreeFd(s) = 0 THEN [fd |-> 0, s |-> s]
    ELSE LET fd == LowestFreeFd(s)
         IN  [fd |-> fd,
              s  |-> [s EXCEPT !.backlog = Tail(@),
                               !.socks[fd] = [Head(s.backlog) EXCEPT !.open = TRUE]]]

\* epoll_ctl(epfd of w, EPOLL_CTL_ADD, fd, ev)
epoll_add(s, w, fd, ev, c, rdhup) ==
    [s EXCEPT !.epoll[w][fd] = [ev |-> ev, ptr |-> c, armed |-> TRUE, rdhup |-> rdhup]]

\* handle_new_connection: the accept loop.  add_fails says whether
\* epoll_ctl(EPOLL_CTL_ADD) fails (ENOMEM/ENOSPC) in this call.
RECURSIVE handle_new_connection(_, _, _, _, _)
\* The loop body from conn->fd = client_fd (worker.c:123); s1 is the memory
\* after connection_get returned record c.
accept_register(s1, c, fd, w, now, add_fails, accepts_count) ==
    IF add_fails
    THEN handle_new_connection(
             Note(sys_close(connection_release(
                                [s1 EXCEPT !.conns[c].fd = fd,
                                           !.conns[c].state = STATE_READING,
                                           !.conns[c].last_active = now], c),
                            fd),
                  "accept_add_failed", c),
             w, now, add_fails, accepts_count + 1)
    ELSE handle_new_connection(
             Note(timer_heap_add(
                      epoll_add([s1 EXCEPT !.conns[c].fd = fd,
                                           !.conns[c].state = STATE_READING,
                                           !.conns[c].last_active = now],
                                w, fd, "in", c, FALSE),
                      w, c, REQUEST_TIMEOUT_MS, now),
                  "accepted", c),
             w, now, add_fails, accepts_count + 1)

\* The loop body after accept4 returned A.fd (worker.c:98).
accept_one(A, w, now, add_fails, accepts_count) ==
    IF A.fd = 0 THEN A.s
    ELSE IF PoolTop(A.s) = 0
    THEN handle_new_connection(Note(sys_close(A.s, A.fd), "accept_dropped", 0),
                               w, now, add_fails, accepts_count + 1)
    ELSE accept_register(connection_get(A.s), PoolTop(A.s), A.fd,
                         w, now, add_fails, accepts_count)

handle_new_connection(s, w, now, add_fails, accepts_count) ==
    IF ~(accepts_count < MAX_ACCEPTS_PER_LOOP) THEN s
    ELSE accept_one(accept4(s), w, now, add_fails, accepts_count)

(***************************************************************************)
(* timer.c: one iteration of the loop of timer_heap_process_expired, run   *)
(* by thread w on heap h with the clock reading pnow taken at its entry.   *)
(* close_connection_from_worker is worker.c's, so it works on the          *)
(* thread-local epoll_fd and timer_heap of w, whichever heap h is.         *)
(***************************************************************************)
RootExpired(H, pnow) == Len(H.heap) > 0 /\ ~TsAfter(Expiry(H, 0), pnow)

RootConn(H) == H.nodes[H.heap[1]].conn

timer_heap_process_expired_iter(s, w, h) ==
    LET c == RootConn(s.th[h])
        st == s.conns[c].state
    IN  IF st # STATE_FREE /\ st # STATE_CLOSING
        THEN Note(close_connection_from_worker(
                      [s EXCEPT !.conns[c].state = STATE_CLOSING], w, c),
                  "expired_closed", c)
        ELSE s


(***************************************************************************)
(* lockfree_pool.c is not among the sources; lockfree_pool_get and         *)
(* lockfree_pool_release follow the pool contract of the specification:    *)
(* acquire returns a scrubbed record or null, release returns the record   *)
(* and is idempotent for a record that is already Free.                    *)
(***************************************************************************)
LfTop(s) == IF s.lf = << >> THEN 0 ELSE s.lf[Len(s.lf)]

lockfree_pool_get(s) ==
    LET c == LfTop(s)
    IN  IF c = 0 THEN s
        ELSE [s EXCEPT !.lf = SubSeq(@, 1, Len(@) - 1),
                       !.conns[c] = Scrub(@, c)]

lockfree_pool_release(s, c) ==
    IF s.conns[c].state = STATE_FREE THEN s
    ELSE [s EXCEPT !.conns[c] = MarkFree(@), !.lf = Append(@, c)]

(***************************************************************************)
(* worker_optimized.c.  The worker's heap is the timer_heap member of its  *)
(* optimized_worker_t, th[OptHeap].                                        *)
(***************************************************************************)
BATCH_SIZE == 32
MAX_ACCEPTS_PER_LOOP_OPT == 128

close_connection_from_worker_optimized(s, c) ==
    IF s.conns[c].fd = NoFd THEN s
    ELSE lockfree_pool_release(
             timer_heap_remove(sys_close(s, s.conns[c].fd), OptHeap, c), c)

do_write_end_optimized(s1, r, c, now) ==
    IF r.end = "EAGAIN"
    THEN Note(epoll_mod(s1, OptWorker, s1.conns[c].fd, "out", c, TRUE), "write_wait", c)
    ELSE IF r.attempts >= MAX_WRITE_ATTEMPTS_OPT
    THEN Note(close_connection_from_worker_optimized(s1, c), "write_closed", c)
    ELSE IF s1.conns[c].keep_alive # 0
    THEN Note(timer_heap_add(
                  epoll_mod([s1 EXCEPT
                               !.conns[c].state = STATE_KEEP_ALIVE,
                               !.conns[c].parser = [http_parser_init(@) EXCEPT !.data = c],
                               !.conns[c].bytes_read = 0,
                               !.conns[c].bytes_sent = 0,
                               !.conns[c].url = << >>],
                            OptWorker, s1.conns[c].fd, "in", c, TRUE),
                  OptHeap, c, KEEP_ALIVE_TIMEOUT_MS, now),
              "write_keepalive", c)
    ELSE Note(close_connection_from_worker_optimized(s1, c), "write_done_close", c)

do_write_loop_optimized(s, r, c, now) == do_write_end_optimized(Sent(s, r, c), r, c, now)

do_write_optimized(s, c, now, wr) ==
    IF TotalLen(s.conns[c]) > MAX_RESPONSE_SIZE
    THEN Note(close_connection_from_worker_optimized(s, c), "write_closed", c)
    ELSE do_write_loop_optimized(
             s, WriteLoop(s.conns[c].bytes_sent, s.conns[c].resp, 0,
                          MAX_WRITE_ATTEMPTS_OPT, TRUE, wr),
             c, now)

\* The recv loop of do_read_optimized; the validator sees the bytes of each
\* recv.
RECURSIVE ReadLoopOpt(_, _, _)
ReadChecksOpt(s1, r, c, read_attempts) ==
    IF r.n > 0 /\ s1.conns[c].bytes_read > MAX_REQUEST_SIZE
    THEN [s |-> Note(close_connection_from_worker_optimized(s1, c), "read_closed", c),
          closed |-> TRUE, nread |-> r.n, errno |-> r.errno]
    ELSE IF r.n > 0 /\ ~simd_validate_url_chars(r.data)
    THEN [s |-> Note(close_connection_from_worker_optimized(s1, c),
                     "read_invalid_bytes", c),
          closed |-> TRUE, nread |-> r.n, errno |-> r.errno]
    ELSE IF r.n > 0 /\ s1.conns[c].bytes_read < BUFFER_SIZE
            /\ read_attempts + 1 < MAX_READ_ATTEMPTS_OPT
    THEN ReadLoopOpt(s1, c, read_attempts + 1)
    ELSE [s |-> s1, closed |-> FALSE, nread |-> r.n, errno |-> r.errno]

ReadStepOpt(s, r, c, read_attempts) ==
    ReadChecksOpt(Received(s, r, c), r, c, read_attempts)

ReadLoopOpt(s, c, read_attempts) ==
    IF BUFFER_SIZE - s.conns[c].bytes_read = 0
    THEN [s |-> Note(close_connection_from_worker_optimized(s, c), "read_closed", c),
          closed |-> TRUE, nread |-> 0, errno |-> "none"]
    ELSE ReadStepOpt(s, recv(s, s.conns[c].fd, BUFFER_SIZE - s.conns[c].bytes_read),
                     c, read_attempts)

\* do_read_optimized after http_parser_execute (worker_optimized.c:448);
\* s3 is the memory with the parser's writes.
do_read_parsed_optimized(s3, c) ==
    IF s3.conns[c].parser.http_errno # "HPE_OK" /\ s3.conns[c].parser.http_errno # "HPE_PAUSED"
    THEN [s |-> Note(close_connection_from_worker_optimized(s3, c), "read_parse_error", c),
          ret |-> -1]
    ELSE [s |-> Note([timer_heap_remove(s3, OptHeap, c) EXCEPT
                        !.conns[c] = handle_request_and_prepare_response(@)],
                     "read_dispatched", c),
          ret |-> 0]

\* do_read_optimized from the header-end scan (worker_optimized.c:441).
do_read_scan_optimized(s, header_end, c) ==
    IF header_end # -1
    THEN do_read_parsed_optimized(
             [s EXCEPT !.conns[c] =
                 http_parser_execute(s.conns[c], s.conns[c].read_buf, header_end + 4).conn],
             c)
    ELSE [s |-> Note(epoll_mod(s, OptWorker, s.conns[c].fd, "in", c, TRUE),
                     "read_rearmed", c),
          ret |-> 1]

do_read_after_loop_optimized(L, c) ==
    IF L.closed THEN [s |-> L.s, ret |-> -1]
    ELSE IF L.nread = 0 \/ (L.nread < 0 /\ L.errno # "EAGAIN")
    THEN [s |-> Note(close_connection_from_worker_optimized(L.s, c), "read_eof", c),
          ret |-> -1]
    ELSE do_read_scan_optimized(
             L.s, simd_find_header_end(L.s.conns[c].read_buf, L.s.conns[c].bytes_read), c)

\* do_read_optimized: the memory after the call and the value returned.
do_read_optimized(s, c, now) ==
    do_read_after_loop_optimized(
        ReadLoopOpt(timer_heap_add(
                        timer_heap_remove([s EXCEPT !.conns[c].state = STATE_READING],
                                          OptHeap, c),
                        OptHeap, c, REQUEST_TIMEOUT_MS, now),
                    c, 0),
        c)

\* handle_new_connections_batch
RECURSIVE handle_new_connections_batch(_, _, _, _)
accept_register_optimized(s1, c, fd, now, add_fails, accepts_count) ==
    IF add_fails
    THEN handle_new_connections_batch(
             Note(sys_close(lockfree_pool_release(
                                [s1 EXCEPT !.conns[c].fd = fd,
                                           !.conns[c].state = STATE_READING,
                                           !.conns[c].last_active = now], c),
                            fd),
                  "accept_add_failed", c),
             now, add_fails, accepts_count + 1)
    ELSE handle_new_connections_batch(
             Note(timer_heap_add(
                      epoll_add([s1 EXCEPT !.conns[c].fd = fd,
                                           !.conns[c].state = STATE_READING,
                                           !.conns[c].last_active = now],
                                OptWorker, fd, "in", c, TRUE),
                      OptHeap, c, REQUEST_TIMEOUT_MS, now),
                  "accepted", c),
             now, add_fails, accepts_count + 1)

accept_one_optimized(A, now, add_fails, accepts_count) ==
    IF A.fd = 0 THEN A.s
    ELSE IF LfTop(A.s) = 0
    THEN handle_new_connections_batch(Note(sys_close(A.s, A.fd), "accept_dropped", 0),
                                      now, add_fails, accepts_count + 1)
    ELSE accept_register_optimized(lockfree_pool_get(A.s), LfTop(A.s), A.fd,
                                   now, add_fails, accepts_count)

handle_new_connections_batch(s, now, add_fails, accepts_count) ==
    IF ~(accepts_count < MAX_ACCEPTS_PER_LOOP_OPT) THEN s
    ELSE accept_one_optimized(accept4(s), now, add_fails, accepts_count)

\* A connection that is ready to write goes into write_batch, or is written
\* at once when the batch is full.  M holds the memory s and the batches b.
QueueWrite(M, c, now, wr) ==
    IF Len(M.b.wr) < BATCH_SIZE
    THEN [M EXCEPT !.b.wr = Append(@, c)]
    ELSE [M EXCEPT !.s = do_write_optimized(M.s, c, now, wr)]

\* What follows a return of do_read_optimized: the write batch on 0.
AfterRead(M, R, c, now, wr) ==
    IF R.ret = 0 THEN QueueWrite([M EXCEPT !.s = R.s], c, now, wr)
    ELSE [M EXCEPT !.s = R.s]

ReadThenQueue(M, c, now, wr) == AfterRead(M, do_read_optimized(M.s, c, now), c, now, wr)

\* The second test of handle_connection_event_optimized
\* (worker_optimized.c:346).
handle_write_event_optimized(M1, c, events, now, wr) ==
    IF M1.s.conns[c].state = STATE_WRITING /\ "OUT" \in events
    THEN QueueWrite(M1, c, now, wr)
    ELSE M1

handle_live_event_optimized(M, c, events, now, wr) ==
    IF events \cap {"ERR", "HUP", "RDHUP"} # {}
    THEN [M EXCEPT !.s = Note(close_connection_from_worker_optimized(M.s, c),
                              "event_hup", c)]
    ELSE handle_write_event_optimized(
             IF (M.s.conns[c].state = STATE_READING \/ M.s.conns[c].state = STATE_KEEP_ALIVE)
                /\ "IN" \in events
             THEN IF Len(M.b.rd) < BATCH_SIZE
                  THEN [M EXCEPT !.b.rd = Append(@, c),
                                 !.s = Note(M.s, "read_queued", c)]
                  ELSE ReadThenQueue(M, c, now, wr)
             ELSE M,
             c, events, now, wr)

handle_connection_event_optimized(M, c, events, now, wr) ==
    IF M.s.conns[c].state = STATE_CLOSING \/ M.s.conns[c].state = STATE_FREE
    THEN [M EXCEPT !.s = Note(M.s, "event_ignored", c)]
    ELSE handle_live_event_optimized([M EXCEPT !.s.conns[c].last_active = now],
                                     c, events, now, wr)

RECURSIVE process_read_batch(_, _, _, _)
process_read_batch(M, i, now, wr) ==
    IF i > Len(M.b.rd) THEN [M EXCEPT !.b.rd = << >>]
    ELSE process_read_batch(ReadThenQueue(M, M.b.rd[i], now, wr), i + 1, now, wr)

RECURSIVE process_write_batch(_, _, _, _)
process_write_batch(M, i, now, wr) ==
    IF i > Len(M.b.wr) THEN [M EXCEPT !.b.wr = << >>]
    ELSE process_write_batch(
             [M EXCEPT !.s = do_write_optimized(M.s, M.b.wr[i], now, wr)],
             i + 1, now, wr)

flush_write_batch(M1, now, wr) ==
    IF Len(M1.b.wr) > 0 THEN process_write_batch(M1, 1, now, wr) ELSE M1

flush_batches(M, now, wr) ==
    flush_write_batch(IF Len(M.b.rd) > 0 THEN process_read_batch(M, 1, now, wr) ELSE M,
                      now, wr)

(***************************************************************************)
(* The state.                                                              *)
(*   mem   : the memory record described above                             *)
(*   now   : the monotonic clock, in ms                                    *)
(*   nconn : connections clients have opened so far                        *)
(*   pc[w] : where worker w is in its loop: "wait" (in epoll_wait),        *)
(*           "expire" (in timer_heap_process_expired), "events" (in the    *)
(*           for loop over the events epoll_wait returned)                 *)
(*   evq[w]  : the events epoll_wait returned that are not yet handled     *)
(*   pnow[w] : the clock reading process_expired took at its entry         *)
(*   spun[w] : the loop of process_expired made an iteration that changed  *)
(*             nothing (observation only)                                  *)
(*   batch   : read_batch and write_batch of the optimized worker          *)
(*   thr     : the threads of the pool-level specification: where each is  *)
(*             in connection_get / connection_release, the record it works *)
(*             on and the records it holds pointers to                     *)
(*   lfs     : an array stack of lockfree_pool.h: its slots and its top    *)
(*   call    : the last call of the function-level specification: the      *)
(*             function, its arguments and what it returned                *)
(***************************************************************************)
VARIABLES mem, now, nconn, pc, evq, pnow, spun, batch, thr, lfs, call

vars == <<mem, now, nconn, pc, evq, pnow, spun, batch, thr, lfs, call>>

NowTs == Timespec(now \div 1000, (now % 1000) * 1000000)

\* connection_pool_init: every record Free, indices 0..N-1 pushed in order.
connection_pool_init(MAX_CONNECTIONS) ==
    [conns |-> [c \in 1..MAX_CONNECTIONS |-> ConnInit],
     stack |-> [i \in 1..MAX_CONNECTIONS |-> i],
     used  |-> 0]

\* A thread-local timer_heap_t nobody initialised (all zero).
ZeroHeap ==
    [heap |-> << >>, nodes |-> [n \in NodeIdx |-> NodeInit], free |-> << >>,
     capacity |-> 0]

MemInit ==
    [conns   |-> connection_pool_init(MaxConnections).conns,
     stack   |-> connection_pool_init(MaxConnections).stack,
     used    |-> connection_pool_init(MaxConnections).used,
     lf      |-> [i \in 1..MaxConnections |-> i],
     th      |-> [h \in HeapIds |-> timer_heap_init],
     epoll   |-> [w \in Workers |-> [fd \in Fds |-> NoReg]],
     socks   |-> [fd \in Fds |-> SockInit],
     backlog |-> << >>,
     wire    |-> 0,
     out     |-> [op |-> "init", c |-> 0]]

NoThreads == [t \in Workers |-> [pc |-> "idle", c |-> 0, known |-> {}]]
NoBatch == [rd |-> << >>, wr |-> << >>]
NoStack == [stack |-> << >>, top |-> -1]
NoCall == [fn |-> "none"]

Init ==
    /\ mem = MemInit
    /\ now = 0
    /\ nconn = 0
    /\ pc = [w \in Workers |-> "wait"]
    /\ evq = [w \in Workers |-> << >>]
    /\ pnow = [w \in Workers |-> Timespec(0, 0)]
    /\ spun = [w \in Workers |-> FALSE]
    /\ batch = NoBatch
    /\ thr = NoThreads
    /\ lfs = NoStack
    /\ call = NoCall

(***************************************************************************)
(* Clients and the clock.                                                  *)
(***************************************************************************)
\* A client completes a TCP handshake with the listening socket.
ClientConnect ==
    /\ nconn < MaxClients
    /\ mem' = [mem EXCEPT !.backlog =
                    Append(@, [SockInit EXCEPT !.script = (nconn % Len(Scripts)) + 1])]
    /\ nconn' = nconn + 1
    /\ UNCHANGED <<now, pc, evq, pnow, spun, batch, thr, lfs, call>>

\* A client sends the next piece of its request.
ClientSend ==
    /\ \E fd \in Fds :
          LET so == mem.socks[fd]
          IN  /\ so.open /\ ~so.peer_closed
              /\ \E p \in SplitPoints(so.script) :
                    /\ p > so.sent
                    /\ mem' = [mem EXCEPT
                                 !.socks[fd].inbuf =
                                     @ \o SubSeq(Scripts[so.script], so.sent + 1, p),
                                 !.socks[fd].sent = p]
    /\ UNCHANGED <<now, nconn, pc, evq, pnow, spun, batch, thr, lfs, call>>

\* A client closes its end.
ClientClose ==
    /\ \E fd \in Fds :
          /\ mem.socks[fd].open /\ ~mem.socks[fd].peer_closed
          /\ mem' = [mem EXCEPT !.socks[fd].peer_closed = TRUE]
    /\ UNCHANGED <<now, nconn, pc, evq, pnow, spun, batch, thr, lfs, call>>

(***************************************************************************)
(* The worker loop of worker.c.                                            *)
(***************************************************************************)
\* The event mask epoll reports for fd in w's set, {} for none.
ReadyMask(s, w, fd) ==
    LET reg == s.epoll[w][fd]
        so  == s.socks[fd]
    IN  IF ~reg.armed \/ ~so.open THEN {}
        ELSE (IF reg.ev = "in" /\ (so.inbuf # << >> \/ so.peer_closed) THEN {"IN"} ELSE {})
             \cup (IF reg.ev = "out" THEN {"OUT"} ELSE {})
             \cup (IF reg.rdhup /\ so.peer_closed THEN {"RDHUP"} ELSE {})

\* The events epoll_wait returns to w: the listening socket first, then the
\* connections by descriptor.
RECURSIVE ConnEvents(_, _, _)
ConnEvents(s, w, fd) ==
    IF fd \notin Fds THEN << >>
    ELSE (IF ReadyMask(s, w, fd) # {}
          THEN << [listen |-> FALSE, ptr |-> s.epoll[w][fd].ptr,
                   events |-> ReadyMask(s, w, fd)] >>
          ELSE << >>) \o ConnEvents(s, w, fd + 1)

ReadyEvents(s, w) ==
    (IF s.backlog # << >> THEN << [listen |-> TRUE, ptr |-> 0, events |-> {"IN"}] >>
     ELSE << >>) \o ConnEvents(s, w, 1)

\* EPOLLONESHOT: a registration that reported is disarmed.
Disarm(s, w) ==
    [s EXCEPT !.epoll[w] = [fd \in Fds |->
        IF ReadyMask(s, w, fd) # {} THEN [s.epoll[w][fd] EXCEPT !.armed = FALSE]
        ELSE s.epoll[w][fd]]]

\* epoll_wait of w would return now.
Wakes(w) ==
    \/ ReadyEvents(mem, w) # << >>
    \/ timer_heap_get_next_timeout(mem.th[w], NowTs) = 0

\* epoll_wait returns: events are ready or the timeout computed by
\* timer_heap_get_next_timeout has run out; process_expired reads the clock.
EpollWait(w) ==
    /\ pc[w] = "wait"
    /\ Wakes(w)
    /\ evq' = [evq EXCEPT ![w] = ReadyEvents(mem, w)]
    /\ mem' = Disarm(mem, w)
    /\ pnow' = [pnow EXCEPT ![w] = NowTs]
    /\ pc' = [pc EXCEPT ![w] = "expire"]
    /\ spun' = [spun EXCEPT ![w] = FALSE]
    /\ UNCHANGED <<now, nconn, batch, thr, lfs, call>>

\* The clock is coarse: a step of TickMs passes while every worker is blocked
\* in epoll_wait (a pass through the handlers takes far less than a step).
Tick ==
    /\ now < MaxTicks * TickMs
    /\ \A w \in Workers : pc[w] = "wait" /\ ~Wakes(w)
    /\ now' = now + TickMs
    /\ UNCHANGED <<mem, nconn, pc, evq, pnow, spun, batch, thr, lfs, call>>

AfterHandlers(q) == IF q = << >> THEN "wait" ELSE "events"

\* One turn of the while loop of timer_heap_process_expired(&timer_heap).
ProcessExpired(w) ==
    /\ pc[w] = "expire"
    /\ IF RootExpired(mem.th[w], pnow[w])
       THEN /\ mem' = timer_heap_process_expired_iter(mem, w, w)
            /\ spun' = [spun EXCEPT ![w] = (mem' = mem)]
            /\ pc' = pc
       ELSE /\ pc' = [pc EXCEPT ![w] = AfterHandlers(evq[w])]
            /\ UNCHANGED <<mem, spun>>
    /\ UNCHANGED <<now, nconn, evq, pnow, batch, thr, lfs, call>>

\* The body of the for loop for the listening socket.
HandleListen(w) ==
    /\ pc[w] = "events"
    /\ Head(evq[w]).listen
    /\ \E add_fails \in BOOLEAN :
          mem' = handle_new_connection(mem, w, NowTs, add_fails, 0)
    /\ evq' = [evq EXCEPT ![w] = Tail(@)]
    /\ pc' = [pc EXCEPT ![w] = AfterHandlers(Tail(evq[w]))]
    /\ UNCHANGED <<now, nconn, pnow, spun, batch, thr, lfs, call>>

\* How the kernel answers the writev calls of one do_write.
WriteBehaviours ==
    { [chunk |-> MAX_RESPONSE_SIZE, room |-> MAX_RESPONSE_SIZE],
      [chunk |-> MAX_RESPONSE_SIZE, room |-> 0],
      [chunk |-> 100, room |-> 100],
      [chunk |-> 1, room |-> MAX_RESPONSE_SIZE] }

\* The body of the for loop for a connection event.
HandleConn(w) ==
    /\ pc[w] = "events"
    /\ ~Head(evq[w]).listen
    /\ \E wr \in WriteBehaviours :
          mem' = handle_connection_event(mem, w, Head(evq[w]).ptr,
                                         Head(evq[w]).events, NowTs, wr)
    /\ evq' = [evq EXCEPT ![w] = Tail(@)]
    /\ pc' = [pc EXCEPT ![w] = AfterHandlers(Tail(evq[w]))]
    /\ UNCHANGED <<now, nconn, pnow, spun, batch, thr, lfs, call>>

Next ==
    \/ ClientConnect
    \/ ClientSend
    \/ ClientClose
    \/ Tick
    \/ \E w \in Workers : EpollWait(w)
    \/ \E w \in Workers : ProcessExpired(w)
    \/ \E w \in Workers : HandleListen(w)
    \/ \E w \in Workers : HandleConn(w)

Spec == Init /\ [][Next]_vars


(***************************************************************************)
(* Observations used by the properties.                                    *)
(***************************************************************************)
AllWaiting == \A w \in Workers : pc[w] = "wait"

\* The entries <<h, i>> of all heaps that reference connection c.
EntriesOf(c) ==
    {e \in HeapIds \X (0..(TimerCapacity - 1)) :
        /\ e[2] < Len(mem.th[e[1]].heap)
        /\ mem.th[e[1]].nodes[mem.th[e[1]].heap[e[2] + 1]].conn = c}

\* The bytes do_read has put into the buffer of c are exactly a complete,
\* valid request.
HoldsCompleteRequest(c) ==
    \E k \in 1..Len(Scripts) :
        /\ mem.conns[c].bytes_read = Len(Scripts[k])
        /\ Len(mem.conns[c].read_buf) >= Len(Scripts[k])
        /\ SubSeq(mem.conns[c].read_buf, 1, Len(Scripts[k])) = Scripts[k]

\* What do_read can report once it has gone on to parse the buffer.
AfterParse == {"read_parse_error", "read_unparsed", "read_version", "read_upgrade",
               "read_too_big", "read_rearmed"}

Dispatched == {"write_closed", "write_wait", "write_keepalive", "write_done_close"}

\* C2: in worker_loop, when do_read has the complete headers of a valid
\* request in the buffer, the request is dispatched (the connection leaves
\* Reading, handle_request_and_prepare_response and do_write run); it is
\* not left in Reading and not closed as a parse failure.
C2_CompleteRequestIsDispatched ==
    \A c \in ConnIdx :
        (mem.out.c = c /\ mem.out.op \in AfterParse \cup Dispatched /\ HoldsCompleteRequest(c))
            => mem.out.op \in Dispatched

\* do_read has just parsed a complete valid request and re-armed the
\* connection for more bytes.
C2_LeftInReading ==
    \E c \in ConnIdx :
        /\ mem.out = [op |-> "read_rearmed", c |-> c]
        /\ HoldsCompleteRequest(c)
        /\ mem.conns[c].state = STATE_READING

\* C3: heap and timer handles are mutually consistent: heap[i]->heap_index
\* = i and heap[i]->conn->timer_node = heap[i] for every i < size, and a
\* connection with a non-null timer_node is referenced by exactly that entry.
C3_HeapHandlesConsistent ==
    /\ \A h \in Workers : \A i \in 0..(Len(mem.th[h].heap) - 1) :
          LET n == mem.th[h].heap[i + 1]
          IN  /\ mem.th[h].nodes[n].heap_index = i
              /\ mem.conns[mem.th[h].nodes[n].conn].timer_node = [w |-> h, n |-> n]
    /\ \A c \in ConnIdx :
          LET ptr == mem.conns[c].timer_node
          IN  ptr # NULL =>
                 /\ EntriesOf(c) = {<<ptr.w, mem.th[ptr.w].nodes[ptr.n].heap_index>>}
                 /\ mem.th[ptr.w].heap[mem.th[ptr.w].nodes[ptr.n].heap_index + 1] = ptr.n

\* C5: every connection has at most one live timer: no two heap entries
\* reference the same connection record.
C5_AtMostOneTimer ==
    \A c \in ConnIdx : Cardinality(EntriesOf(c)) <= 1

\* C6: when the workers wait for events, every connection in Reading,
\* Writing or KeepAlive has exactly one entry in the timer heap.
C6_LiveHasExactlyOneTimer ==
    AllWaiting =>
        \A c \in ConnIdx :
            mem.conns[c].state \in {STATE_READING, STATE_WRITING, STATE_KEEP_ALIVE}
                => Cardinality(EntriesOf(c)) = 1

\* The armed one-shot registrations that deliver connection c.
ArmedFor(c) ==
    {r \in Workers \X Fds :
        /\ mem.epoll[r[1]][r[2]].armed
        /\ mem.epoll[r[1]][r[2]].ptr = c
        /\ mem.conns[c].fd = r[2]}

\* Connection c has an event that epoll_wait delivered to a worker and the
\* worker has not handled yet.
Delivered(c) ==
    \E w \in Workers : \E i \in 1..Len(evq[w]) :
        ~evq[w][i].listen /\ evq[w][i].ptr = c

C9_ClosedOnceTimeoutPassed ==
    \A c \in ConnIdx :
        mem.out = [op |-> "expired_closed", c |-> c]
            => /\ now - TsToMs(mem.conns[c].last_active) >= REQUEST_TIMEOUT_MS
               /\ mem.conns[c].bytes_sent = 0


(***************************************************************************)
(* worker_loop_optimized, run by thread OptWorker.  The thread-local       *)
(* timer_heap and epoll_fd of worker.c are never initialised in this       *)
(* thread; the records are those of the pool behind lockfree_pool_get, and *)
(* the free stack of connection.c is full (nothing is taken from it).      *)
(***************************************************************************)
InitOpt ==
    /\ mem = [MemInit EXCEPT
                !.th = [h \in HeapIds |-> IF h = OptHeap THEN timer_heap_init ELSE ZeroHeap]]
    /\ now = 0
    /\ nconn = 0
    /\ pc = [w \in Workers |-> "wait"]
    /\ evq = [w \in Workers |-> << >>]
    /\ pnow = [w \in Workers |-> Timespec(0, 0)]
    /\ spun = [w \in Workers |-> FALSE]
    /\ batch = NoBatch
    /\ thr = NoThreads
    /\ lfs = NoStack
    /\ call = NoCall

OptWakes ==
    \/ ReadyEvents(mem, OptWorker) # << >>
    \/ timer_heap_get_next_timeout(mem.th[OptHeap], NowTs) = 0

OptEpollWait ==
    /\ pc[OptWorker] = "wait"
    /\ OptWakes
    /\ evq' = [evq EXCEPT ![OptWorker] = ReadyEvents(mem, OptWorker)]
    /\ mem' = Disarm(mem, OptWorker)
    /\ pnow' = [pnow EXCEPT ![OptWorker] = NowTs]
    /\ pc' = [pc EXCEPT ![OptWorker] = "expire"]
    /\ spun' = [spun EXCEPT ![OptWorker] = FALSE]
    /\ UNCHANGED <<now, nconn, batch, thr, lfs, call>>

OptTick ==
    /\ now < MaxTicks * TickMs
    /\ pc[OptWorker] = "wait" /\ ~OptWakes
    /\ now' = now + TickMs
    /\ UNCHANGED <<mem, nconn, pc, evq, pnow, spun, batch, thr, lfs, call>>

\* One turn of the while loop of timer_heap_process_expired(&worker.timer_heap).
OptProcessExpired ==
    /\ pc[OptWorker] = "expire"
    /\ IF RootExpired(mem.th[OptHeap], pnow[OptWorker])
       THEN /\ mem' = timer_heap_process_expired_iter(mem, OptWorker, OptHeap)
            /\ spun' = [spun EXCEPT ![OptWorker] = (mem' = mem)]
            /\ pc' = pc
       ELSE /\ pc' = [pc EXCEPT ![OptWorker] =
                         IF evq[OptWorker] = << >> THEN "wait" ELSE "events"]
            /\ UNCHANGED <<mem, spun>>
    /\ UNCHANGED <<now, nconn, evq, pnow, batch, thr, lfs, call>>

\* After the last event the batches are flushed when one is not empty.
OptAfterHandlers(q, b) ==
    IF q # << >> THEN "events"
    ELSE IF Len(b.rd) > 0 \/ Len(b.wr) > 0 THEN "flush" ELSE "wait"

\* The handler leaves memory and batches as M says.
OptCommit(M) == mem' = M.s /\ batch' = M.b

OptHandleListen ==
    /\ pc[OptWorker] = "events"
    /\ Head(evq[OptWorker]).listen
    /\ \E add_fails \in BOOLEAN :
          mem' = handle_new_connections_batch(mem, NowTs, add_fails, 0)
    /\ evq' = [evq EXCEPT ![OptWorker] = Tail(@)]
    /\ pc' = [pc EXCEPT ![OptWorker] = OptAfterHandlers(Tail(evq[OptWorker]), batch)]
    /\ UNCHANGED <<now, nconn, pnow, spun, batch, thr, lfs, call>>

OptHandleConn ==
    /\ pc[OptWorker] = "events"
    /\ ~Head(evq[OptWorker]).listen
    /\ \E wr \in WriteBehaviours :
          OptCommit(handle_connection_event_optimized(
                        [s |-> mem, b |-> batch], Head(evq[OptWorker]).ptr,
                        Head(evq[OptWorker]).events, NowTs, wr))
    /\ pc' = [pc EXCEPT ![OptWorker] = OptAfterHandlers(Tail(evq[OptWorker]), batch')]
    /\ evq' = [evq EXCEPT ![OptWorker] = Tail(@)]
    /\ UNCHANGED <<now, nconn, pnow, spun, thr, lfs, call>>

OptFlush ==
    /\ pc[OptWorker] = "flush"
    /\ \E wr \in WriteBehaviours :
          OptCommit(flush_batches([s |-> mem, b |-> batch], NowTs, wr))
    /\ pc' = [pc EXCEPT ![OptWorker] = "wait"]
    /\ UNCHANGED <<now, nconn, evq, pnow, spun, thr, lfs, call>>

NextOpt ==
    \/ ClientConnect
    \/ ClientSend
    \/ ClientClose
    \/ OptTick
    \/ OptEpollWait
    \/ OptProcessExpired
    \/ OptHandleListen
    \/ OptHandleConn
    \/ OptFlush

SpecOpt == InitOpt /\ [][NextOpt]_vars

\* The bytes do_read_optimized has received on c so far are the first bytes
\* of the healthcheck request.
ReceivedHealthReq(c) ==
    /\ mem.conns[c].bytes_read > 0
    /\ mem.conns[c].bytes_read <= Len(mem.conns[c].read_buf)
    /\ IsPrefix(SubSeq(mem.conns[c].read_buf, 1, mem.conns[c].bytes_read), HealthReq)

\* C1: in worker_loop_optimized a client that sends the well-formed request
\* "GET /health HTTP/1.1", a Host header and the blank line gets past read
\* processing: do_read_optimized does not close the connection for invalid
\* bytes or a parse error, and once the whole request is in the buffer it is
\* answered 200 with the health body and the connection is kept alive.
C1_HealthcheckIsServed ==
    \A c \in ConnIdx :
        (mem.out.c = c /\ ReceivedHealthReq(c)
            /\ mem.out.op \notin {"accepted", "expired_closed", "event_hup", "read_eof"})
          => /\ mem.out.op \notin {"read_invalid_bytes", "read_parse_error"}
             /\ mem.conns[c].bytes_read = Len(HealthReq)
                   => /\ mem.out.op \in {"write_keepalive", "write_wait"}
                      /\ mem.conns[c].resp.status = 200
                      /\ mem.conns[c].keep_alive = 1

\* C8: when timer_heap_process_expired returns, no entry of the heap has
\* expired at the time it read, and every entry that had expired was removed
\* with its connection closed and released: while the loop runs, the expired
\* root never belongs to a record that is already Free or Closing, which the
\* loop can neither close nor remove.
C8_ExpiredEntriesAreRemoved ==
    /\ pc[OptWorker] # "expire"
          => ~RootExpired(mem.th[OptHeap], pnow[OptWorker])
    /\ (pc[OptWorker] = "expire" /\ RootExpired(mem.th[OptHeap], pnow[OptWorker]))
          => mem.conns[RootConn(mem.th[OptHeap])].state
                 \notin {STATE_FREE, STATE_CLOSING}


(***************************************************************************)
(* The pool of connection.c under its callers, thread by thread.  The      *)
(* mutex covers the stack only: the guard and the field writes of          *)
(* connection_release and the field writes of connection_get run outside   *)
(* it, so each is a step of its own.  A thread closes records it holds a   *)
(* pointer to; a pointer delivered by epoll_wait outlives the release of   *)
(* its record.                                                             *)
(***************************************************************************)
PoolIdx == 1..PoolConnections

InitPool ==
    /\ mem = [MemInit EXCEPT
                !.conns = connection_pool_init(PoolConnections).conns,
                !.stack = connection_pool_init(PoolConnections).stack,
                !.used = connection_pool_init(PoolConnections).used]
    /\ now = 0
    /\ nconn = 0
    /\ pc = [w \in Workers |-> "wait"]
    /\ evq = [w \in Workers |-> << >>]
    /\ pnow = [w \in Workers |-> Timespec(0, 0)]
    /\ spun = [w \in Workers |-> FALSE]
    /\ batch = NoBatch
    /\ thr = NoThreads
    /\ lfs = NoStack
    /\ call = NoCall

PoolFrame == UNCHANGED <<now, nconn, pc, evq, pnow, spun, batch, lfs, call>>

\* handle_new_connection calls connection_get: the locked pop.
PoolGetPop(t) ==
    /\ thr[t].pc = "idle"
    /\ PoolTop(mem) # 0
    /\ mem' = pool_pop(mem)
    /\ thr' = [thr EXCEPT ![t].pc = "get_scrub", ![t].c = PoolTop(mem)]
    /\ PoolFrame

\* connection_get resets the record after the unlock.
PoolGetScrub(t) ==
    /\ thr[t].pc = "get_scrub"
    /\ mem' = pool_scrub(mem, thr[t].c)
    /\ thr' = [thr EXCEPT ![t].pc = "attach"]
    /\ PoolFrame

\* handle_new_connection stores the descriptor and the state, then
\* registers the descriptor; when that fails it releases the record.
PoolAttach(t) ==
    /\ thr[t].pc = "attach"
    /\ mem' = [mem EXCEPT !.conns[thr[t].c].fd = t,
                          !.conns[thr[t].c].state = STATE_READING]
    /\ \E add_fails \in BOOLEAN :
          thr' = [thr EXCEPT ![t].pc = IF add_fails THEN "rel_guard" ELSE "arm"]
    /\ PoolFrame

\* handle_new_connection arms the request timer: timer_heap_add stores the
\* node in the record.  From here on epoll_wait delivers the pointer.
PoolArm(t) ==
    /\ thr[t].pc = "arm"
    /\ mem' = [mem EXCEPT !.conns[thr[t].c].timer_node = [w |-> t, n |-> 1]]
    /\ thr' = [thr EXCEPT ![t].pc = "idle", ![t].c = 0,
                          ![t].known = @ \cup {thr[t].c}]
    /\ PoolFrame

\* close_connection_from_worker on a record the thread has a pointer to:
\* nothing for fd = -1, else the descriptor is closed, timer_heap_remove
\* clears the handle of a node of this thread's heap, and
\* connection_release is entered.
PoolClose(t) ==
    /\ thr[t].pc = "idle"
    /\ \E c \in thr[t].known :
          /\ mem.conns[c].fd # NoFd
          /\ mem' = [mem EXCEPT !.conns[c].timer_node =
                                   IF @.w = t THEN NULL ELSE @]
          /\ thr' = [thr EXCEPT ![t].pc = "rel_guard", ![t].c = c]
    /\ PoolFrame

\* connection_release: the test of conn->state, outside the mutex.
PoolRelGuard(t) ==
    /\ thr[t].pc = "rel_guard"
    /\ thr' = [thr EXCEPT ![t].pc = IF mem.conns[thr[t].c].state = STATE_FREE
                                     THEN "idle" ELSE "rel_write",
                          ![t].c = IF mem.conns[thr[t].c].state = STATE_FREE
                                   THEN 0 ELSE @]
    /\ UNCHANGED mem
    /\ PoolFrame

\* connection_release: the three field writes, outside the mutex.
PoolRelWrite(t) ==
    /\ thr[t].pc = "rel_write"
    /\ mem' = [mem EXCEPT !.conns[thr[t].c] = MarkFree(@)]
    /\ thr' = [thr EXCEPT ![t].pc = "rel_push"]
    /\ PoolFrame

\* connection_release: the locked push.
PoolRelPush(t) ==
    /\ thr[t].pc = "rel_push"
    /\ mem' = pool_push(mem, thr[t].c)
    /\ thr' = [thr EXCEPT ![t].pc = "idle", ![t].c = 0]
    /\ PoolFrame

NextPool ==
    \E t \in Workers :
        \/ PoolGetPop(t)
        \/ PoolGetScrub(t)
        \/ PoolAttach(t)
        \/ PoolArm(t)
        \/ PoolClose(t)
        \/ PoolRelGuard(t)
        \/ PoolRelWrite(t)
        \/ PoolRelPush(t)

SpecPool == InitPool /\ [][NextPool]_vars

\* Thread t is inside connection_get or connection_release on record c.
Inside(t, c) ==
    thr[t].c = c /\ thr[t].pc \in {"get_scrub", "rel_guard", "rel_write", "rel_push"}

\* C4: for every connection record in every reachable state, state = Free
\* if and only if fd = -1 and timer_node = null.
C4_FreeIffDetached ==
    \A c \in PoolIdx :
        mem.conns[c].state = STATE_FREE
            <=> (mem.conns[c].fd = NoFd /\ mem.conns[c].timer_node = NULL)

\* One direction of C4: a Free record has fd = -1 and no timer handle.
C4_FreeIsDetached ==
    \A c \in PoolIdx :
        mem.conns[c].state = STATE_FREE
            => (mem.conns[c].fd = NoFd /\ mem.conns[c].timer_node = NULL)

\* C10: under any interleaving of connection_get and connection_release
\* across threads the free stack never contains the same index twice (no
\* record can be handed out twice without a release in between), and every
\* released record is available to a later connection_get: a Free record
\* that no thread is getting or releasing is on the stack.
C10_NoDuplicatesNoLeaks ==
    /\ \A i, j \in 1..Len(mem.stack) : i # j => mem.stack[i] # mem.stack[j]
    /\ \A c \in PoolIdx :
          (mem.conns[c].state = STATE_FREE /\ \A t \in Workers : ~Inside(t, c))
              => \E i \in 1..Len(mem.stack) : mem.stack[i] = c

\* C12: connection_release is idempotent: on a record that is already Free
\* it changes neither the record, nor the free stack, nor pool_used_count,
\* so a second release of a record leaves the pool as the first one did.
C12_ReleaseIsIdempotent ==
    \A c \in PoolIdx :
        /\ mem.conns[c].state = STATE_FREE => connection_release(mem, c) = mem
        /\ connection_release(connection_release(mem, c), c)
              = connection_release(mem, c)

\* A thread enters connection_release on a record that is already Free
\* while the free stack still has room for a push.
C12_ReleaseOfFreeRecord ==
    \E t \in Workers :
        /\ thr[t].pc = "rel_guard"
        /\ mem.conns[thr[t].c].state = STATE_FREE
        /\ Len(mem.stack) < PoolConnections

(***************************************************************************)
(* lockfree_pool.h: lockfree_stack_pop and lockfree_stack_push on one      *)
(* array stack shared by the threads.  Each atomic access is a step.  A    *)
(* thread pushes only an index it holds (one it popped and has not pushed  *)
(* back), as a pool release would.  thr[t].c is the thread's value,        *)
(* thr[t].top its current_top, thr[t].known the indices it holds.          *)
(***************************************************************************)
\* Slots of the array stack (CONNECTIONS_PER_CORE in lockfree_pool.h).
LfSlots == 2

LfIdx == 1..LfSlots

\* The stack after initialisation: every index pushed, top on the last slot.
InitLf ==
    /\ mem = MemInit
    /\ now = 0
    /\ nconn = 0
    /\ pc = [w \in Workers |-> "wait"]
    /\ evq = [w \in Workers |-> << >>]
    /\ pnow = [w \in Workers |-> Timespec(0, 0)]
    /\ spun = [w \in Workers |-> FALSE]
    /\ batch = NoBatch
    /\ thr = [t \in Workers |-> [pc |-> "idle", c |-> 0, top |-> -1, known |-> {}]]
    /\ lfs = [stack |-> [i \in 0..(LfSlots - 1) |-> i + 1], top |-> LfSlots - 1]
    /\ call = NoCall

LfFrame == UNCHANGED <<mem, now, nconn, pc, evq, pnow, spun, batch, call>>

\* lockfree_stack_pop: current_top = atomic_load(top); -1 on an empty stack.
LfPopLoad(t) ==
    /\ thr[t].pc \in {"idle", "pop_load"}
    /\ thr' = [thr EXCEPT ![t].top = lfs.top,
                          ![t].pc = IF lfs.top < 0 THEN "idle" ELSE "pop_read"]
    /\ UNCHANGED lfs
    /\ LfFrame

\* lockfree_stack_pop: value = atomic_load(&stack[current_top]).
LfPopRead(t) ==
    /\ thr[t].pc = "pop_read"
    /\ thr' = [thr EXCEPT ![t].c = lfs.stack[thr[t].top], ![t].pc = "pop_cas"]
    /\ UNCHANGED lfs
    /\ LfFrame

\* lockfree_stack_pop: the weak compare-exchange of top; on failure the loop
\* starts over, on success value is returned and the thread holds it.
LfPopCas(t) ==
    /\ thr[t].pc = "pop_cas"
    /\ \E spurious \in BOOLEAN :
          IF lfs.top = thr[t].top /\ ~spurious
          THEN /\ lfs' = [lfs EXCEPT !.top = thr[t].top - 1]
               /\ thr' = [thr EXCEPT ![t].pc = "idle",
                                     ![t].known = @ \cup {thr[t].c}]
          ELSE /\ thr' = [thr EXCEPT ![t].pc = "pop_load"]
               /\ UNCHANGED lfs
    /\ LfFrame

\* lockfree_stack_push(value): current_top = atomic_load(top); -1 when
\* new_top reaches the capacity.
LfPushLoad(t) ==
    /\ \/ /\ thr[t].pc = "idle"
          /\ \E v \in thr[t].known :
                thr' = [thr EXCEPT ![t].c = v, ![t].top = lfs.top,
                                   ![t].pc = IF lfs.top + 1 >= LfSlots
                                             THEN "idle" ELSE "push_store"]
       \/ /\ thr[t].pc = "push_load"
          /\ thr' = [thr EXCEPT ![t].top = lfs.top,
                                ![t].pc = IF lfs.top + 1 >= LfSlots
                                          THEN "idle" ELSE "push_store"]
    /\ UNCHANGED lfs
    /\ LfFrame

\* lockfree_stack_push: atomic_store(&stack[new_top], value), before the
\* compare-exchange.
LfPushStore(t) ==
    /\ thr[t].pc = "push_store"
    /\ lfs' = [lfs EXCEPT !.stack[thr[t].top + 1] = thr[t].c]
    /\ thr' = [thr EXCEPT ![t].pc = "push_cas"]
    /\ LfFrame

\* lockfree_stack_push: the weak compare-exchange of top; on success 0 is
\* returned and the thread no longer holds the index.
LfPushCas(t) ==
    /\ thr[t].pc = "push_cas"
    /\ \E spurious \in BOOLEAN :
          IF lfs.top = thr[t].top /\ ~spurious
          THEN /\ lfs' = [lfs EXCEPT !.top = thr[t].top + 1]
               /\ thr' = [thr EXCEPT ![t].pc = "idle",
                                     ![t].known = @ \ {thr[t].c}]
          ELSE /\ thr' = [thr EXCEPT ![t].pc = "push_load"]
               /\ UNCHANGED lfs
    /\ LfFrame

NextLf ==
    \E t \in Workers :
        \/ LfPopLoad(t)
        \/ LfPopRead(t)
        \/ LfPopCas(t)
        \/ LfPushLoad(t)
        \/ LfPushStore(t)
        \/ LfPushCas(t)

SpecLf == InitLf /\ [][NextLf]_vars

\* The indices on the stack, bottom to top.
LfOnStack == [i \in 1..(lfs.top + 1) |-> lfs.stack[i - 1]]

\* C11: under any interleaving of lockfree_stack_push and lockfree_stack_pop
\* no index is held by two threads at once (returned by two pops with no
\* push in between), and, whenever no call is in progress, every index is
\* either held by exactly one thread or on the stack exactly once (none
\* lost, none overwritten, none duplicated).
C11_StackKeepsEveryIndexOnce ==
    /\ \A t, u \in Workers : t # u => thr[t].known \cap thr[u].known = {}
    /\ (\A t \in Workers : thr[t].pc = "idle")
          => \A v \in LfIdx :
                Cardinality({i \in 1..Len(LfOnStack) : LfOnStack[i] = v})
                  + Cardinality({t \in Workers : v \in thr[t].known}) = 1

\* The node conn c's handle points at has an index outside worker w's heap.
HandleOutOfRange(w, c) ==
    LET ptr == mem.conns[c].timer_node
    IN  /\ ptr # NULL
        /\ \/ mem.th[ptr.w].nodes[ptr.n].heap_index < 0
           \/ mem.th[ptr.w].nodes[ptr.n].heap_index >= Len(mem.th[w].heap)

\* The entry of worker w's heap at the handle's index is another node.
HandleMismatch(w, c) ==
    LET ptr == mem.conns[c].timer_node
    IN  /\ ptr # NULL
        /\ ~HandleOutOfRange(w, c)
        /\ \/ ptr.w # w
           \/ mem.th[w].heap[mem.th[ptr.w].nodes[ptr.n].heap_index + 1] # ptr.n

\* C20: timer_heap_remove on a connection whose timer_node is null, whose
\* node's heap_index is out of range for the heap, or whose heap entry at
\* that index is not the node, leaves every heap, its size, every
\* heap_index and the node pool unchanged.
C20_RemoveOfStaleHandleIsNoOp ==
    \A w \in Workers, c \in ConnIdx :
        (mem.conns[c].timer_node = NULL \/ HandleOutOfRange(w, c) \/ HandleMismatch(w, c))
            => timer_heap_remove(mem, w, c).th = mem.th

\* A worker has collected an event for a connection whose handle points
\* into the other worker's heap while its own heap holds an entry at the
\* same index: its do_read is about to call timer_heap_remove on it.
C20_StaleHandleAboutToBeRemoved ==
    \E w \in Workers, c \in ConnIdx :
        /\ HandleMismatch(w, c)
        /\ evq[w] # << >>
        /\ ~Head(evq[w]).listen
        /\ Head(evq[w]).ptr = c
        /\ mem.conns[c].state \in {STATE_READING, STATE_KEEP_ALIVE}

(***************************************************************************)
(* Function-level specification: single calls of on_url_callback and of    *)
(* handle_request_and_prepare_response on arguments drawn from bounded     *)
(* sets.  call holds the function, its arguments and what it returned.     *)
(***************************************************************************)
\* Targets are all byte strings up to this length over TargetBytes.
MaxTargetLen == 3

\* '/', '.', 'a', '?' and '%' (a byte outside the allowed set).
TargetBytes == {47, 46, 97, 63, 37}

RECURSIVE SeqsUpTo(_, _)
SeqsUpTo(S, n) ==
    IF n = 0 THEN {<< >>}
    ELSE SeqsUpTo(S, n - 1)
           \cup {Append(q, b) : q \in {x \in SeqsUpTo(S, n - 1) : Len(x) = n - 1}, b \in S}

\* "/aaa...a" of n bytes.
LongTarget(n) == [i \in 1..n |-> IF i = 1 THEN 47 ELSE 97]

Targets ==
    SeqsUpTo(TargetBytes, MaxTargetLen)
      \cup {LongTarget(URL_MAX_LEN - 1), LongTarget(URL_MAX_LEN)}

\* What follows the target in read_buf when the parser calls on_url_callback:
\* nothing yet, " HTTP/1.1\r\nHost: h\r\n\r\n", or
\* " HTTP/1.1\r\nReferer: http://h\r\n\r\n".
TargetRests ==
    { << >>,
      <<32, 72, 84, 84, 80, 47, 49, 46, 49, 13, 10, 72, 111, 115, 116, 58, 32, 104, 13, 10, 13, 10>>,
      <<32, 72, 84, 84, 80, 47, 49, 46, 49, 13, 10, 82, 101, 102, 101, 114, 101, 114, 58, 32,
        104, 116, 116, 112, 58, 47, 47, 104, 13, 10, 13, 10>> }

\* "GET " in front of the target.
GetSp == <<71, 69, 84, 32>>

\* The connection record the dispatcher is called on after the parser
\* stored a method, a target and the keep-alive flag.
ParsedConn(method, url, keep_alive) ==
    [ConnInit EXCEPT !.state = STATE_READING, !.fd = 1, !.url = url,
                     !.keep_alive = keep_alive, !.parser.method = method]

\* "/health", "/games", "/bonuses", "/settings", "/", "/x", "/healthx",
\* "/health/", each also with "?a" appended, and "/?".
DispatchUrls ==
    LET paths == { <<47, 104, 101, 97, 108, 116, 104>>,
                   <<47, 103, 97, 109, 101, 115>>,
                   <<47, 98, 111, 110, 117, 115, 101, 115>>,
                   <<47, 115, 101, 116, 116, 105, 110, 103, 115>>,
                   <<47>>, <<47, 120>>,
                   <<47, 104, 101, 97, 108, 116, 104, 120>>,
                   <<47, 104, 101, 97, 108, 116, 104, 47>> }
    IN  paths \cup {q \o <<63, 97>> : q \in paths} \cup {<<47, 63>>, <<47, 63, 63>>}

InitFn ==
    /\ mem = MemInit
    /\ now = 0
    /\ nconn = 0
    /\ pc = [w \in Workers |-> "wait"]
    /\ evq = [w \in Workers |-> << >>]
    /\ pnow = [w \in Workers |-> Timespec(0, 0)]
    /\ spun = [w \in Workers |-> FALSE]
    /\ batch = NoBatch
    /\ thr = NoThreads
    /\ lfs = NoStack
    /\ call = NoCall

FnFrame == UNCHANGED <<mem, now, nconn, pc, evq, pnow, spun, batch, thr, lfs>>

\* The parser calls on_url_callback(p, at, length) with at pointing at the
\* target inside read_buf.
CallOnUrl ==
    /\ \E t \in Targets, r \in TargetRests :
          call' = [fn |-> "on_url", target |-> t, rest |-> r,
                   out |-> on_url_ok(GetSp \o t \o r, Len(GetSp), Len(t))]
    /\ FnFrame

\* do_read calls handle_request_and_prepare_response(conn).
CallDispatch ==
    /\ \E method \in {"GET", "POST", "DELETE"}, url \in DispatchUrls, ka \in {0, 1} :
          call' = [fn |-> "dispatch", conn |-> ParsedConn(method, url, ka),
                   out |-> handle_request_and_prepare_response(
                               ParsedConn(method, url, ka))]
    /\ FnFrame

NextFn ==
    \/ CallOnUrl
    \/ CallDispatch

SpecFn == InitFn /\ [][NextFn]_vars

\* The bytes the target check allows: letters, digits, / - _ . ? = &
AllowedTargetByte(b) ==
    \/ (b >= 65 /\ b <= 90) \/ (b >= 97 /\ b <= 122) \/ (b >= 48 /\ b <= 57)
    \/ b \in {47, 45, 95, 46, 63, 61, 38}

\* The target's own bytes are acceptable: 1 to 255 bytes, first byte '/',
\* allowed bytes only, no ".." and no "//" inside the target.
TargetIsWellFormed(t) ==
    /\ Len(t) >= 1 /\ Len(t) <= 255
    /\ t[1] = 47
    /\ \A i \in 1..Len(t) : AllowedTargetByte(t[i])
    /\ ~\E i \in 1..(Len(t) - 1) :
           (t[i] = 46 /\ t[i + 1] = 46) \/ (t[i] = 47 /\ t[i + 1] = 47)

\* C16: the target check accepts a target if and only if the target's own
\* bytes are acceptable (1 to 255 bytes, first byte '/', allowed bytes, no
\* ".." or "//" inside it); the bytes after the target do not matter.
C16_TargetVerdictIsLocal ==
    call.fn = "on_url" => (call.out <=> TargetIsWellFormed(call.target))

\* A well-formed target is rejected.
C16_WellFormedTargetRejected ==
    /\ call.fn = "on_url"
    /\ TargetIsWellFormed(call.target)
    /\ ~call.out

\* The target up to its first '?'.
BeforeQuery(url) ==
    CHOOSE q \in {SubSeq(url, 1, n) : n \in 0..Len(url)} :
        /\ \A i \in 1..Len(q) : q[i] # 63
        /\ (Len(q) = Len(url) \/ url[Len(q) + 1] = 63)

\* The four routes and their bodies: /bonuses, /settings, /games, /health.
RouteTable ==
    { [path |-> <<47, 98, 111, 110, 117, 115, 101, 115>>, body |-> bonuses_json],
      [path |-> <<47, 115, 101, 116, 116, 105, 110, 103, 115>>, body |-> settings_json],
      [path |-> <<47, 103, 97, 109, 101, 115>>, body |-> games_json],
      [path |-> <<47, 104, 101, 97, 108, 116, 104>>, body |-> health_json] }

\* C17: for a non-empty target that starts with '/', the dispatcher answers
\* 405 with keep_alive cleared when the method is not GET; 200 with the
\* route's body and keep_alive unchanged when the method is GET and the
\* target cut at its first '?' is one of the four routes; 404 with
\* keep_alive cleared for GET with any other path.
C17_DispatchChoosesResponse ==
    (call.fn = "dispatch" /\ call.conn.url # << >> /\ call.conn.url[1] = 47)
      => IF call.conn.parser.method # "GET"
         THEN /\ call.out.resp.status = 405
              /\ call.out.resp.body = method_not_allowed_json
              /\ call.out.keep_alive = 0
         ELSE IF \E r \in RouteTable : r.path = BeforeQuery(call.conn.url)
         THEN /\ call.out.resp.status = 200
              /\ \E r \in RouteTable : /\ r.path = BeforeQuery(call.conn.url)
                                       /\ r.body = call.out.resp.body
              /\ call.out.keep_alive = call.conn.keep_alive
         ELSE /\ call.out.resp.status = 404
              /\ call.out.resp.body = not_found_json
              /\ call.out.keep_alive = 0

\* A GET for a route with a query string was answered 200 and kept alive.
C17_RouteWithQueryServed ==
    /\ call.fn = "dispatch"
    /\ call.conn.parser.method = "GET"
    /\ call.conn.keep_alive = 1
    /\ call.conn.url = <<47, 104, 101, 97, 108, 116, 104, 63, 97>>
    /\ call.out.resp.status = 200
    /\ call.out.state = STATE_WRITING

(***************************************************************************)
(* The write path at function level.  Neither worker loop takes a record   *)
(* to Writing, so do_write and do_write_optimized are exercised here on a  *)
(* record prepared the way the last branch of do_read (worker.c:260-265)   *)
(* and the dispatch of do_read_optimized (worker_optimized.c:454) prepare  *)
(* it: accepted, request received and parsed, timer removed, response      *)
(* prepared by handle_request_and_prepare_response.                        *)
(***************************************************************************)
\* GET /nope HTTP/1.1\r\nContent-Length: 0\r\n\r\n
NotFoundReq ==
    <<71, 69, 84, 32, 47, 110, 111, 112, 101, 32, 72, 84, 84, 80, 47, 49, 46, 49, 13, 10, 67,
    111, 110, 116, 101, 110, 116, 45, 76, 101, 110, 103, 116, 104, 58, 32, 48, 13, 10, 13, 10>>

\* POST /games HTTP/1.1\r\nContent-Length: 0\r\n\r\n
PostReq ==
    <<80, 79, 83, 84, 32, 47, 103, 97, 109, 101, 115, 32, 72, 84, 84, 80, 47, 49, 46, 49, 13,
    10, 67, 111, 110, 116, 101, 110, 116, 45, 76, 101, 110, 103, 116, 104, 58, 32, 48, 13, 10,
    13, 10>>

\* GET /games?a HTTP/1.0\r\nConnection: keep-alive\r\nContent-Length: 0\r\n\r\n
Http10KeepAliveReq ==
    <<71, 69, 84, 32, 47, 103, 97, 109, 101, 115, 63, 97, 32, 72, 84, 84, 80, 47, 49, 46, 48,
    13, 10, 67, 111, 110, 110, 101, 99, 116, 105, 111, 110, 58, 32, 107, 101, 101, 112, 45, 97,
    108, 105, 118, 101, 13, 10, 67, 111, 110, 116, 101, 110, 116, 45, 76, 101, 110, 103, 116,
    104, 58, 32, 48, 13, 10, 13, 10>>

\* GET /health HTTP/1.1\r\nConnection: close\r\nContent-Length: 0\r\n\r\n
CloseReq ==
    <<71, 69, 84, 32, 47, 104, 101, 97, 108, 116, 104, 32, 72, 84, 84, 80, 47, 49, 46, 49, 13,
    10, 67, 111, 110, 110, 101, 99, 116, 105, 111, 110, 58, 32, 99, 108, 111, 115, 101, 13, 10,
    67, 111, 110, 116, 101, 110, 116, 45, 76, 101, 110, 103, 116, 104, 58, 32, 48, 13, 10, 13,
    10>>

WriteRequests == {HealthReqCL0, NotFoundReq, PostReq, Http10KeepAliveReq, CloseReq}

\* Request/response cycles one connection goes through.
MaxCycles == 2

\* How the kernel answers the writev calls of one call of do_write: every
\* pair of a per-call limit and of the room in the send buffer.
PartialWrites ==
    {[chunk |-> k, room |-> r] : k \in {1, 7, 100, MAX_RESPONSE_SIZE},
                                 r \in {0, 1, 7, 30, 100, MAX_RESPONSE_SIZE}}

\* A client that connected and sent req.
Arrived(req) == [MemInit EXCEPT !.backlog = <<[SockInit EXCEPT !.inbuf = req]>>]

\* recv of everything the socket holds into read_buf, then the parser.
ReceivedAndParsed(s, c) ==
    LET s1 == Received(s, recv(s, s.conns[c].fd, BUFFER_SIZE - s.conns[c].bytes_read), c)
    IN  [s1 EXCEPT !.conns[c] =
            http_parser_execute(s1.conns[c], s1.conns[c].read_buf,
                                s1.conns[c].bytes_read).conn]

\* The start of do_read and of do_read_optimized on heap h: state, timer.
ReadStarted(s, h, c, ts) ==
    timer_heap_add(timer_heap_remove([s EXCEPT !.conns[c].state = STATE_READING], h, c),
                   h, c, REQUEST_TIMEOUT_MS, ts)

\* worker.c:262-263 and worker_optimized.c:454: the timer is removed and the
\* response prepared.
DispatchedOn(s, h, c) ==
    Note([timer_heap_remove(s, h, c) EXCEPT
             !.conns[c] = handle_request_and_prepare_response(@)],
         "read_dispatched", c)

\* The worker_loop thread that serves the connection.
WriteWorker == CHOOSE w \in Workers : \A v \in Workers : w <= v

\* The heap the worker in use works on.
WriteHeap(optimized) == IF optimized THEN OptHeap ELSE WriteWorker

\* The request that is in the socket of record c is read, parsed and
\* dispatched.
\* dispatched, or closed on a parser error (worker.c:227-231,
\* worker_optimized.c:448-451).
ServedParsed(s3, optimized, c) ==
    IF optimized THEN do_read_parsed_optimized(s3, c).s
    ELSE IF s3.conns[c].parser.http_errno # "HPE_OK"
            /\ s3.conns[c].parser.http_errno # "HPE_PAUSED"
    THEN Note(close_connection_from_worker(s3, WriteWorker, c), "read_parse_error", c)
    ELSE DispatchedOn(s3, WriteWorker, c)

Served(s, optimized, c, ts) ==
    ServedParsed(ReceivedAndParsed(ReadStarted(s, WriteHeap(optimized), c, ts), c),
                 optimized, c)

AcceptedBy(s, optimized, ts) ==
    IF optimized THEN handle_new_connections_batch(s, ts, FALSE, 0)
    ELSE handle_new_connection(s, WriteWorker, ts, FALSE, 0)

\* The record the pool of the worker in use hands out first.
FirstRecord(optimized) == IF optimized THEN LfTop(MemInit) ELSE PoolTop(MemInit)

InitWrite ==
    /\ \E req \in WriteRequests, optimized \in BOOLEAN :
          /\ mem = Served(AcceptedBy(Arrived(req), optimized, Timespec(0, 0)),
                          optimized, FirstRecord(optimized), Timespec(0, 0))
          /\ call = [fn |-> "write", optimized |-> optimized, cycles |-> 1,
                     c |-> FirstRecord(optimized), loop_sent |-> 0,
                     handed |-> << >>, waits |-> 0,
                     fresh |-> IF optimized
                               THEN lockfree_pool_get(Arrived(req)).conns[FirstRecord(optimized)]
                               ELSE connection_get(Arrived(req)).conns[FirstRecord(optimized)]]
    /\ now = 0
    /\ nconn = 1
    /\ pc = [w \in Workers |-> "wait"]
    /\ evq = [w \in Workers |-> << >>]
    /\ pnow = [w \in Workers |-> Timespec(0, 0)]
    /\ spun = [w \in Workers |-> FALSE]
    /\ batch = NoBatch
    /\ thr = NoThreads
    /\ lfs = NoStack

\* EAGAIN returns are counted up to MaxWaits.
MaxWaits == 2

\* The bytes the socket took up to the end of that loop, acc before it.
HandedBy(acc, conn, optimized, wr) ==
    Handed(acc, conn.bytes_sent, conn.resp, 0,
           IF optimized THEN MAX_WRITE_ATTEMPTS_OPT ELSE MAX_WRITE_ATTEMPTS,
           optimized, wr)

WriteFrame == UNCHANGED <<now, nconn, pc, evq, pnow, spun, batch, thr, lfs>>

\* do_write(conn): the call at worker.c:264 and the later calls on EPOLLOUT
\* (worker.c:161-163).
DoWrite ==
    /\ ~call.optimized
    /\ mem.conns[call.c].state = STATE_WRITING
    /\ \E wr \in PartialWrites :
          /\ mem' = do_write(mem, WriteWorker, call.c, NowTs, wr)
          /\ call' = [call EXCEPT
                        !.loop_sent = mem.conns[call.c].bytes_sent + (mem'.wire - mem.wire),
                        !.handed = HandedBy(@, mem.conns[call.c], FALSE, wr),
                        !.waits = IF mem'.out.op = "write_wait"
                                  THEN Min(@ + 1, MaxWaits) ELSE @]
    /\ WriteFrame

\* do_write_optimized(worker, conn)
DoWriteOptimized ==
    /\ call.optimized
    /\ mem.conns[call.c].state = STATE_WRITING
    /\ \E wr \in PartialWrites :
          /\ mem' = do_write_optimized(mem, call.c, NowTs, wr)
          /\ call' = [call EXCEPT
                        !.loop_sent = mem.conns[call.c].bytes_sent + (mem'.wire - mem.wire),
                        !.handed = HandedBy(@, mem.conns[call.c], TRUE, wr),
                        !.waits = IF mem'.out.op = "write_wait"
                                  THEN Min(@ + 1, MaxWaits) ELSE @]
    /\ WriteFrame

\* The client of a kept-alive connection sends its next request, which is
\* read, parsed and dispatched.
NextRequest ==
    /\ mem.conns[call.c].state = STATE_KEEP_ALIVE
    /\ call.cycles < MaxCycles
    /\ \E req \in WriteRequests :
          mem' = Served([mem EXCEPT !.socks[mem.conns[call.c].fd].inbuf = req],
                        call.optimized, call.c, NowTs)
    /\ call' = [call EXCEPT !.cycles = @ + 1, !.loop_sent = 0,
                            !.handed = << >>, !.waits = 0]
    /\ WriteFrame

NextWrite ==
    \/ DoWrite
    \/ DoWriteOptimized
    \/ NextRequest

SpecWrite == InitWrite /\ [][NextWrite]_vars

\* C13: a connection in Writing has bytes_sent at most
\* response_iov[0].iov_len + response_iov[1].iov_len, under do_write and
\* do_write_optimized, for every sequence of partial writes, EAGAIN returns
\* and resumptions.
\* call.loop_sent is bytes_sent when the writev loop of the last call ended
\* (bytes_sent before the call plus what the call put on the wire), the
\* largest value it had while the record was in Writing; call.handed are
\* the bytes the socket took over all writev calls of the response and
\* call.waits the EAGAIN returns.
C13_BytesSentWithinResponse ==
    /\ \A c \in ConnIdx :
          mem.conns[c].state = STATE_WRITING
              => mem.conns[c].bytes_sent
                   <= mem.conns[c].resp.hdr_len + mem.conns[c].resp.body_len
    /\ call.fn = "write"
          => call.loop_sent <= mem.conns[call.c].resp.hdr_len + mem.conns[call.c].resp.body_len

\* do_write_optimized returned on EAGAIN in the middle of the body.
C13_StoppedInsideBody ==
    /\ call.fn = "write" /\ call.optimized
    /\ mem.out = [op |-> "write_wait", c |-> call.c]
    /\ mem.conns[call.c].state = STATE_WRITING
    /\ mem.conns[call.c].bytes_sent > mem.conns[call.c].resp.hdr_len
    /\ mem.conns[call.c].bytes_sent < mem.conns[call.c].resp.hdr_len + mem.conns[call.c].resp.body_len

\* C14: when a request/response cycle ends in KeepAlive, the record's
\* bytes_read, bytes_sent, parser and url are what they were right after
\* connection_get: 0, 0, a freshly initialised parser whose data points to
\* the record, an empty url; under do_write and do_write_optimized.
C14_KeepAliveRestoresRecord ==
    (call.fn = "write" /\ mem.out = [op |-> "write_keepalive", c |-> call.c])
        => /\ mem.conns[call.c].state = STATE_KEEP_ALIVE
           /\ mem.conns[call.c].bytes_read = call.fresh.bytes_read
           /\ mem.conns[call.c].bytes_sent = call.fresh.bytes_sent
           /\ mem.conns[call.c].parser = call.fresh.parser
           /\ mem.conns[call.c].url = call.fresh.url
           /\ mem.conns[call.c].bytes_read = 0 /\ mem.conns[call.c].bytes_sent = 0
           /\ mem.conns[call.c].url = << >>
           /\ mem.conns[call.c].parser.data = call.c

\* do_write ended a second cycle in KeepAlive after a write that had to be
\* resumed.
C14_SecondCycleKeptAlive ==
    /\ call.fn = "write" /\ ~call.optimized
    /\ call.cycles = MaxCycles
    /\ mem.out = [op |-> "write_keepalive", c |-> call.c]
    /\ mem.socks[mem.conns[call.c].fd].out > 0

(***************************************************************************)
(* The read path on one connection: a client sends one request in pieces   *)
(* and the worker handles each EPOLLIN with do_read or do_read_optimized.  *)
(***************************************************************************)
\* GET /../etc/passwd HTTP/1.1\r\nHost: h\r\n\r\n
TraversalReq ==
    <<71, 69, 84, 32, 47, 46, 46, 47, 101, 116, 99, 47, 112, 97, 115, 115, 119, 100, 32, 72,
    84, 84, 80, 47, 49, 46, 49, 13, 10, 72, 111, 115, 116, 58, 32, 104, 13, 10, 13, 10>>

\* GET /health HTTP/1.1\r\nContent-Length: 1\r\n\r\n
BodyReq ==
    <<71, 69, 84, 32, 47, 104, 101, 97, 108, 116, 104, 32, 72, 84, 84, 80, 47, 49, 46, 49, 13,
    10, 67, 111, 110, 116, 101, 110, 116, 45, 76, 101, 110, 103, 116, 104, 58, 32, 49, 13, 10,
    13, 10>>

\* GET /health HTTP/1.1\r\nContent-Length: 0\r\nX: 
PadHead ==
    <<71, 69, 84, 32, 47, 104, 101, 97, 108, 116, 104, 32, 72, 84, 84, 80, 47, 49, 46, 49, 13,
    10, 67, 111, 110, 116, 101, 110, 116, 45, 76, 101, 110, 103, 116, 104, 58, 32, 48, 13, 10,
    88, 58, 32>>

\* A well-formed request of n bytes: PadHead, a header value of
\* alternating 'a' and 'b', and "\r\n\r\n".
PaddedReq(n) ==
    PadHead \o [i \in 1..(n - Len(PadHead) - 4) |-> IF i % 2 = 1 THEN 97 ELSE 98]
            \o <<13, 10, 13, 10>>

Requests ==
    {HealthReqCL0, TraversalReq, BodyReq,
     PaddedReq(MAX_REQUEST_SIZE), PaddedReq(MAX_REQUEST_SIZE + 1)}

\* Where the client may pause: anywhere in a short request, at the buffer
\* size and at the end of a long one.
SendPoints(req) ==
    IF Len(req) <= BUFFER_SIZE THEN 1..Len(req) ELSE {BUFFER_SIZE, Len(req)}

\* The three ways the request is handled: worker.c's do_read,
\* do_read_optimized, and do_read_optimized from its header-end scan on
\* (worker_optimized.c:441), past the byte validator.
ReadHandlers == {"do_read", "do_read_optimized", "scan_optimized"}

\* k entries in heap h that no connection's handle points to, as the
\* stale-event race of the workers leaves them behind (an entry added for
\* record c whose timer_node was overwritten afterwards).
RECURSIVE Leaked(_, _, _, _)
Leaked(s, h, c, k) ==
    IF k = 0 THEN s
    ELSE [timer_heap_add(Leaked(s, h, c, k - 1), h, c, REQUEST_TIMEOUT_MS, Timespec(0, 0))
             EXCEPT !.conns[c].timer_node = NULL]

InitReq ==
    /\ \E req \in Requests, h \in ReadHandlers, k \in 0..TimerCapacity :
          /\ mem = Leaked(Arrived(<< >>), WriteHeap(h # "do_read"),
                          FirstRecord(h # "do_read"), k)
          /\ call = [fn |-> "req", handler |-> h, req |-> req, sent |-> 0, leaked |-> k,
                     c |-> FirstRecord(h # "do_read")]
    /\ now = 0
    /\ nconn = 1
    /\ pc = [w \in Workers |-> "wait"]
    /\ evq = [w \in Workers |-> << >>]
    /\ pnow = [w \in Workers |-> Timespec(0, 0)]
    /\ spun = [w \in Workers |-> FALSE]
    /\ batch = NoBatch
    /\ thr = NoThreads
    /\ lfs = NoStack

ReqFrame == UNCHANGED <<now, nconn, pc, evq, pnow, spun, batch, thr, lfs>>

\* The listening socket is readable: handle_new_connection, or
\* handle_new_connections_batch in the optimized worker.
ReqAccept ==
    /\ mem.backlog # << >>
    /\ mem' = AcceptedBy(mem, call.handler # "do_read", NowTs)
    /\ UNCHANGED call
    /\ ReqFrame

\* The client sends more of its request.
ReqSend ==
    /\ mem.conns[call.c].fd \in Fds
    /\ \E p \in SendPoints(call.req) :
          /\ p > call.sent
          /\ mem' = [mem EXCEPT !.socks[mem.conns[call.c].fd].inbuf =
                                    @ \o SubSeq(call.req, call.sent + 1, p)]
          /\ call' = [call EXCEPT !.sent = p]
    /\ ReqFrame

\* The worker's epoll reports EPOLLIN for the connection.
ReadReady ==
    /\ mem.conns[call.c].fd \in Fds
    /\ mem.conns[call.c].state \in {STATE_READING, STATE_KEEP_ALIVE}
    /\ "IN" \in ReadyMask(mem, WriteWorker, mem.conns[call.c].fd)

\* handle_connection_event -> do_read(conn)
ReqRead ==
    /\ call.handler = "do_read"
    /\ ReadReady
    /\ \E wr \in WriteBehaviours :
          mem' = do_read(Disarm(mem, WriteWorker), WriteWorker, call.c, NowTs, wr)
    /\ UNCHANGED call
    /\ ReqFrame

\* handle_connection_event_optimized -> do_read_optimized(worker, conn)
ReqReadOptimized ==
    /\ call.handler = "do_read_optimized"
    /\ ReadReady
    /\ mem' = do_read_optimized(Disarm(mem, OptWorker), call.c, NowTs).s
    /\ UNCHANGED call
    /\ ReqFrame

\* do_read_optimized with the byte validator left out: the timer, one recv,
\* then the header-end scan, the parser and the dispatch.
ReqScanOptimized ==
    /\ call.handler = "scan_optimized"
    /\ ReadReady
    /\ LET c  == call.c
           s1 == ReadStarted(Disarm(mem, OptWorker), OptHeap, c, NowTs)
           s2 == Received(s1, recv(s1, s1.conns[c].fd, BUFFER_SIZE - s1.conns[c].bytes_read), c)
       IN  /\ BUFFER_SIZE - s1.conns[c].bytes_read > 0
           /\ mem' = do_read_scan_optimized(
                         s2, simd_find_header_end(s2.conns[c].read_buf,
                                                  s2.conns[c].bytes_read), c).s
    /\ UNCHANGED call
    /\ ReqFrame

NextReq ==
    \/ ReqAccept
    \/ ReqSend
    \/ ReqRead
    \/ ReqReadOptimized
    \/ ReqScanOptimized

SpecReq == InitReq /\ [][NextReq]_vars

\* C15: a request whose headers total exactly 8192 bytes and end in
\* "\r\n\r\n" is accepted: once its connection is accepted the server does
\* not close it; a request of 8193 bytes is not dispatched.
C15_LimitIsMaxRequestSize ==
    call.fn = "req"
        => /\ (call.req = PaddedReq(MAX_REQUEST_SIZE) /\ mem.out.op # "init")
                 => mem.conns[call.c].state # STATE_FREE
           /\ call.req = PaddedReq(MAX_REQUEST_SIZE + 1) => mem.out.op # "read_dispatched"

\* do_read closed the connection of the 8192-byte request with read_buf full
\* at BUFFER_SIZE bytes.
C15_ClosedAtBufferSize ==
    /\ call.fn = "req" /\ call.handler = "do_read"
    /\ call.req = PaddedReq(MAX_REQUEST_SIZE)
    /\ mem.out = [op |-> "read_closed", c |-> call.c]
    /\ mem.conns[call.c].state = STATE_FREE
    /\ mem.conns[call.c].bytes_read = BUFFER_SIZE

\* The record is back in the pool its worker uses.
BackInPool(handler) ==
    IF handler = "do_read"
    THEN \E i \in 1..Len(mem.stack) : mem.stack[i] = call.c
    ELSE \E i \in 1..Len(mem.lf) : mem.lf[i] = call.c

\* C18: when the parser reports an error for a request, the connection is
\* closed and released, the dispatcher has not run and no response byte
\* has been written, in both workers; the requests with an invalid target
\* or a declared body are never dispatched or answered.
C18_ParseErrorClosesSilently ==
    call.fn = "req"
        => /\ mem.out.op = "read_parse_error"
                => /\ mem.conns[call.c].state = STATE_FREE
                   /\ mem.conns[call.c].fd = NoFd
                   /\ \A fd \in Fds : ~mem.socks[fd].open
                   /\ BackInPool(call.handler)
                   /\ mem.conns[call.c].resp = RespZero
                   /\ mem.wire = 0
           /\ call.req \in {TraversalReq, BodyReq}
                => /\ mem.out.op # "read_dispatched"
                   /\ mem.conns[call.c].resp = RespZero
                   /\ mem.wire = 0

\* do_read closed the connection of "GET /../etc/passwd" on the parser's
\* error.
C18_TraversalClosed ==
    /\ call.fn = "req" /\ call.handler = "do_read"
    /\ call.req = TraversalReq
    /\ mem.out = [op |-> "read_parse_error", c |-> call.c]

\* C19: no connection is left open without a timer because timer_heap_add
\* failed: after the accept path and after read processing, a connection
\* that is still open (Reading or KeepAlive) has a timer.
C19_OpenConnectionHasTimer ==
    call.fn = "req"
        => \A c \in ConnIdx :
               mem.conns[c].state \in {STATE_READING, STATE_KEEP_ALIVE}
                   => mem.conns[c].timer_node # NULL

\* handle_new_connection returned with the connection registered and open
\* while its worker's heap was at capacity.
C19_AcceptedWithoutTimer ==
    /\ call.fn = "req" /\ call.handler = "do_read"
    /\ call.leaked = TimerCapacity
    /\ mem.out = [op |-> "accepted", c |-> call.c]
    /\ mem.conns[call.c].state = STATE_READING
    /\ mem.conns[call.c].fd \in Fds
    /\ mem.socks[mem.conns[call.c].fd].open
    /\ mem.conns[call.c].timer_node = NULL

(***************************************************************************)
(* timer.c at the level of the heap: one heap of HeapCapacity nodes and    *)
(* HeapCapacity connection records, arbitrary sequences of timer_heap_add  *)
(* and timer_heap_remove while the monotonic clock advances.               *)
(***************************************************************************)
HeapCapacity == 6
HeapClockSteps == 1
HeapRemovals == 2
HeapWorker == 1
HeapHandles == 1..HeapCapacity
\* The timeouts the workers pass to timer_heap_add.
HeapTimeouts == {REQUEST_TIMEOUT_MS, KEEP_ALIVE_TIMEOUT_MS}
\* A step of the clock between two calls: half a second, so that deadlines
\* differ in tv_nsec as well as in tv_sec.
HeapClockIncrements == {TickMs \div 5}

InitHeap ==
    /\ mem = [MemInit EXCEPT
                !.conns = connection_pool_init(HeapCapacity).conns,
                !.th = [h \in HeapIds |-> timer_heap_init_n(HeapCapacity)]]
    /\ now = 0
    /\ nconn = 0
    /\ pc = [w \in Workers |-> "wait"]
    /\ evq = [w \in Workers |-> << >>]
    /\ pnow = [w \in Workers |-> Timespec(0, 0)]
    /\ spun = [w \in Workers |-> FALSE]
    /\ batch = NoBatch
    /\ thr = NoThreads
    /\ lfs = NoStack
    /\ call = [fn |-> "heap", op |-> "init", index |-> -1, size |-> 0, moved |-> 0,
               steps |-> 0, removals |-> 0]

HeapFrame == UNCHANGED <<nconn, pc, evq, pnow, spun, batch, thr, lfs>>

\* The record the next timer is armed for: the first one without a timer
\* (records are interchangeable for the heap).
NextHandle ==
    CHOOSE c \in HeapHandles :
        /\ mem.conns[c].timer_node = NULL
        /\ \A d \in 1..(c - 1) : mem.conns[d].timer_node # NULL

\* timer_heap_add(&timer_heap, conn, timeout_ms) for a record without a timer.
HeapAdd ==
    /\ \E c \in HeapHandles, timeout_ms \in HeapTimeouts :
          /\ mem.conns[c].timer_node = NULL
          /\ c = NextHandle
          /\ mem' = timer_heap_add(mem, HeapWorker, c, timeout_ms, NowTs)
          /\ call' = [call EXCEPT !.op = "add",
                                  !.index = Len(mem.th[HeapWorker].heap),
                                  !.size = Len(mem.th[HeapWorker].heap)]
    /\ UNCHANGED now
    /\ HeapFrame

\* timer_heap_remove(&timer_heap, conn) for a record with a timer; index and
\* size are the removed entry's index and th->size before the call, moved is
\* the node that was last in the array.
HeapRemove ==
    /\ call.removals < HeapRemovals
    /\ \E c \in HeapHandles :
          /\ mem.conns[c].timer_node # NULL
          /\ mem' = timer_heap_remove(mem, HeapWorker, c)
          /\ call' = [call EXCEPT
                        !.op = "remove",
                        !.index = mem.th[HeapWorker].nodes[mem.conns[c].timer_node.n].heap_index,
                        !.size = Len(mem.th[HeapWorker].heap),
                        !.moved = mem.th[HeapWorker].heap[Len(mem.th[HeapWorker].heap)],
                        !.removals = @ + 1]
    /\ UNCHANGED now
    /\ HeapFrame

\* CLOCK_MONOTONIC advances between calls.
HeapClock ==
    /\ call.steps < HeapClockSteps
    /\ \E d \in HeapClockIncrements : now' = now + d
    /\ call' = [call EXCEPT !.steps = @ + 1]
    /\ UNCHANGED mem
    /\ HeapFrame

NextHeap == HeapAdd \/ HeapRemove \/ HeapClock

SpecHeap == InitHeap /\ [][NextHeap]_vars

\* Every non-root entry's deadline is not smaller than its parent's.
IsMinHeap(H) ==
    \A i \in 1..(Len(H.heap) - 1) :
        ~TsLess(Expiry(H, i), Expiry(H, (i - 1) \div 2))

\* heap[0] holds a minimum deadline of the whole array.
RootIsMinimum(H) ==
    \A i \in 0..(Len(H.heap) - 1) : ~TsLess(Expiry(H, i), Expiry(H, 0))

\* C22: after any sequence of timer_heap_add and timer_heap_remove (at the
\* root, in the middle, at the last index) the array is a min-heap on
\* (tv_sec, tv_nsec) and heap[0] holds the minimum deadline.
C22_HeapOrderKept ==
    call.fn = "heap" =>
        /\ IsMinHeap(mem.th[HeapWorker])
        /\ RootIsMinimum(mem.th[HeapWorker])

\* A removal in the middle of a heap of six entries after which the entry
\* moved into the hole had to travel up, above the index it was put at.
C22_MiddleRemovedSiftedUp ==
    /\ call.fn = "heap"
    /\ call.op = "remove"
    /\ call.index > 0
    /\ call.index < call.size - 1
    /\ Len(mem.th[HeapWorker].heap) = call.size - 1
    /\ mem.th[HeapWorker].nodes[call.moved].heap_index < call.index
    /\ mem.th[HeapWorker].nodes[call.moved].heap_index >= 0

(***************************************************************************)
(* Shutdown of worker_loop: main's signal handler clears g_running, each   *)
(* worker tests it at the top of its loop and runs the code after the      *)
(* loop.  call.g_running is the flag, call.owned[w] the records that were  *)
(* registered in w's epoll set when w left its loop.                       *)
(***************************************************************************)
StopClients == 2

InitStop ==
    /\ mem = MemInit
    /\ now = 0
    /\ nconn = MaxClients - Min(MaxClients, StopClients)
    /\ pc = [w \in Workers |-> "wait"]
    /\ evq = [w \in Workers |-> << >>]
    /\ pnow = [w \in Workers |-> Timespec(0, 0)]
    /\ spun = [w \in Workers |-> FALSE]
    /\ batch = NoBatch
    /\ thr = NoThreads
    /\ lfs = NoStack
    /\ call = [fn |-> "loop", g_running |-> TRUE, owned |-> [w \in Workers |-> {}]]

\* sig_handler: g_running = 0.
Signal ==
    /\ call.g_running
    /\ call' = [call EXCEPT !.g_running = FALSE]
    /\ UNCHANGED <<mem, now, nconn, pc, evq, pnow, spun, batch, thr, lfs>>

\* The records registered in w's epoll set.
Registered(s, w) ==
    {c \in DOMAIN s.conns :
        \E fd \in Fds : s.epoll[w][fd].ev # "none" /\ s.epoll[w][fd].ptr = c}

\* timer_heap_destroy(&timer_heap): the array and the node storage are freed
\* (the freed nodes keep their last contents).
timer_heap_destroy(H) == [H EXCEPT !.heap = << >>, !.free = << >>, !.capacity = 0]

\* The code after the loop of worker_loop: timer_heap_destroy and
\* close(epoll_fd), which drops every registration of the set.
worker_loop_exit(s, w) ==
    Note([s EXCEPT !.th[w] = timer_heap_destroy(@),
                   !.epoll[w] = [fd \in Fds |-> NoReg]], "worker_exit", 0)

\* while (g_running) is false at the top of the loop: w runs the code after
\* the loop and returns.
WorkerReturn(w) ==
    /\ pc[w] = "wait"
    /\ ~call.g_running
    /\ mem' = worker_loop_exit(mem, w)
    /\ pc' = [pc EXCEPT ![w] = "returned"]
    /\ call' = [call EXCEPT !.owned[w] = Registered(mem, w)]
    /\ UNCHANGED <<now, nconn, evq, pnow, spun, batch, thr, lfs>>

NextStop ==
    \/ ClientConnect
    \/ ClientSend
    \/ ClientClose
    \/ Tick
    \/ Signal
    \/ \E w \in Workers : EpollWait(w)
    \/ \E w \in Workers : ProcessExpired(w)
    \/ \E w \in Workers : HandleListen(w)
    \/ \E w \in Workers : HandleConn(w)
    \/ \E w \in Workers : WorkerReturn(w)

SpecStop == InitStop /\ [][NextStop]_vars

\* A record that is in use with an open descriptor.
LiveRecord(s, c) ==
    /\ s.conns[c].state # STATE_FREE
    /\ s.conns[c].fd # NoFd
    /\ s.socks[s.conns[c].fd].open

\* C21: when a worker has left its loop and returned, none of the records it
\* owned is non-Free with an open descriptor, its timer heap is freed and its
\* epoll descriptor is closed.
C21_ReturnedWorkerLeftNothingOpen ==
    call.fn = "loop" =>
        \A w \in Workers :
            pc[w] = "returned" =>
                /\ \A c \in call.owned[w] : ~LiveRecord(mem, c)
                /\ mem.th[w].heap = << >>
                /\ \A fd \in Fds : mem.epoll[w][fd] = NoReg

\* A worker has returned: its heap is freed and its epoll set is closed.
C21_WorkerReturned ==
    /\ call.fn = "loop"
    /\ \E w \in Workers :
          /\ pc[w] = "returned"
          /\ mem.th[w].heap = << >>
          /\ \A fd \in Fds : mem.epoll[w][fd] = NoReg

(***************************************************************************)
(* The end of a response (worker.c:319-337, worker_optimized.c:524-549),   *)
(* checked under SpecWrite.                                                *)
(***************************************************************************)
WriteOps == {"write_wait", "write_closed", "write_keepalive", "write_done_close"}

\* The last step was a write whose writev loop brought bytes_sent to the
\* total length of the two segments.
LastWriteDrained ==
    /\ call.fn = "write"
    /\ mem.out.op \in WriteOps
    /\ mem.out.c = call.c
    /\ call.loop_sent = TotalLen(mem.conns[call.c])

\* The record is kept alive: counters reset, parser re-initialised, read
\* readiness armed one-shot, a KEEP_ALIVE_TIMEOUT_MS timer in heap h.
KeptAlive(s, w, h, c, ts) ==
    LET conn == s.conns[c]
    IN  /\ conn.state = STATE_KEEP_ALIVE
        /\ conn.bytes_read = 0
        /\ conn.bytes_sent = 0
        /\ conn.parser = http_parser_init(conn.parser)
        /\ conn.fd \in Fds
        /\ s.socks[conn.fd].open
        /\ s.epoll[w][conn.fd].ev = "in"
        /\ s.epoll[w][conn.fd].armed
        /\ s.epoll[w][conn.fd].ptr = c
        /\ conn.timer_node # NULL
        /\ conn.timer_node.w = h
        /\ \E i \in 1..Len(s.th[h].heap) : s.th[h].heap[i] = conn.timer_node.n
        /\ s.th[h].nodes[conn.timer_node.n].conn = c
        /\ s.th[h].nodes[conn.timer_node.n].expiry_time = AddMs(ts, KEEP_ALIVE_TIMEOUT_MS)

\* The record is closed and released to the pool in use.
ClosedAndReleased(s, optimized, c) ==
    /\ s.conns[c].state = STATE_FREE
    /\ s.conns[c].fd = NoFd
    /\ \A fd \in Fds : s.socks[fd].open => \A w \in Workers : s.epoll[w][fd].ptr # c
    /\ IF optimized THEN \E i \in 1..Len(s.lf) : s.lf[i] = c
       ELSE \E i \in 1..Len(s.stack) : s.stack[i] = c

\* C23: whenever a write brings bytes_sent to the total length, the
\* connection goes to KeepAlive if keep_alive is set (counters reset, parser
\* re-initialised, read readiness re-armed one-shot, a 10000 ms timer armed)
\* and is closed and released if it is not set, whatever the number of write
\* attempts the drain took; under do_write and do_write_optimized.
C23_DrainedResponseEndsCycle ==
    LastWriteDrained =>
        IF mem.conns[call.c].keep_alive # 0
        THEN KeptAlive(mem, WriteWorker, WriteHeap(call.optimized), call.c, NowTs)
        ELSE ClosedAndReleased(mem, call.optimized, call.c)

\* A drained response of a keep-alive request that ended in KeepAlive.
C23_DrainedAndKeptAlive ==
    /\ LastWriteDrained
    /\ mem.conns[call.c].keep_alive # 0
    /\ mem.out.op = "write_keepalive"
    /\ KeptAlive(mem, WriteWorker, WriteHeap(call.optimized), call.c, NowTs)

\* Every entry of the iovec lies inside its segment.
IovInRange(resp, offset, optimized) ==
    LET base == iov_base(resp.hdr_len, resp.body_len, offset, optimized)
        len  == iov_len(resp.hdr_len, resp.body_len, offset, optimized)
        seglen(b) == IF b.seg = 0 THEN resp.hdr_len ELSE resp.body_len
    IN  \A i \in 1..2 :
            /\ len[i] >= 0
            /\ len[i] > 0 => (base[i].at >= 0 /\ base[i].at + len[i] <= seglen(base[i]))

\* At offset the writer is handed exactly the unsent suffix of the response.
SubmitsUnsentSuffix(resp, offset, optimized) ==
    LET unsent == resp.hdr_len + resp.body_len - offset
    IN  /\ IovLen(iov_len(resp.hdr_len, resp.body_len, offset, optimized)) = unsent
        /\ Submitted(<< >>, resp, offset, optimized, unsent)
              = ResponseBytes(resp, offset, unsent)
        /\ IovInRange(resp, offset, optimized)

\* C24: over all writev calls of one response, whatever the partial results
\* and EAGAIN interruptions, the socket is handed the header bytes followed
\* by the body bytes, each once and in order: every attempt submits exactly
\* the unsent suffix at offset bytes_sent with in-range segments; under
\* do_write and do_write_optimized.  The suffix is checked at every offset
\* of each response when it has been prepared.
C24_WritevGetsUnsentSuffix ==
    call.fn = "write" =>
        LET resp == mem.conns[call.c].resp
        IN  /\ call.handed = ResponseBytes(resp, 0, call.loop_sent)
            /\ mem.out.op = "read_dispatched" =>
                  \A offset \in 0..(resp.hdr_len + resp.body_len - 1) :
                      SubmitsUnsentSuffix(resp, offset, call.optimized)

\* A response that went out whole after at least two EAGAIN interruptions.
C24_WholeResponseAfterInterruptions ==
    /\ call.fn = "write"
    /\ call.waits >= 2
    /\ mem.out.op \in {"write_keepalive", "write_done_close"}
    /\ call.handed = ResponseBytes(mem.conns[call.c].resp, 0, TotalLen(mem.conns[call.c]))
    /\ Len(call.handed) = 2

(***************************************************************************)
(* EAGAIN in the middle of a response (worker.c:303-309,                   *)
(* worker_optimized.c:506-513), checked under SpecWrite.                   *)
(***************************************************************************)
\* Record c waits for write readiness in w's epoll set: Writing, descriptor
\* open, registered one-shot for EPOLLOUT and armed, not in the free stack
\* of the pool in use.
WaitsForWrite(s, optimized, w, c) ==
    LET conn == s.conns[c]
    IN  /\ conn.state = STATE_WRITING
        /\ conn.fd \in Fds
        /\ s.socks[conn.fd].open
        /\ s.epoll[w][conn.fd].ev = "out"
        /\ s.epoll[w][conn.fd].armed
        /\ s.epoll[w][conn.fd].ptr = c
        /\ IF optimized THEN \A i \in 1..Len(s.lf) : s.lf[i] # c
           ELSE \A i \in 1..Len(s.stack) : s.stack[i] # c

\* What the worker in use does with the event epoll reports for record c:
\* worker_loop calls handle_connection_event, worker_loop_optimized calls
\* handle_connection_event_optimized and flushes the batches at the end of
\* the iteration.
EventHandled(s, optimized, w, c, events, ts, wr) ==
    IF optimized
    THEN flush_batches(handle_connection_event_optimized(
                           [s |-> s, b |-> NoBatch], c, events, ts, wr), ts, wr).s
    ELSE handle_connection_event(s, w, c, events, ts, wr)

\* The write the worker in use makes on record c.
WriteCalled(s, optimized, w, c, ts, wr) ==
    IF optimized THEN do_write_optimized(s, c, ts, wr) ELSE do_write(s, w, c, ts, wr)

\* C25: when writev returns EAGAIN in Writing, the connection stays in
\* Writing with bytes_sent as the successful calls left it, is re-armed for
\* one-shot write readiness and is neither closed nor released; the next
\* write-ready event resumes the write (it runs the writer on the record
\* from bytes_sent).
C25_EagainWaitsForWriteReadiness ==
    (call.fn = "write" /\ mem.out = [op |-> "write_wait", c |-> call.c]) =>
        /\ WaitsForWrite(mem, call.optimized, WriteWorker, call.c)
        /\ mem.conns[call.c].bytes_sent = call.loop_sent
        /\ "OUT" \in ReadyMask(mem, WriteWorker, mem.conns[call.c].fd)
        /\ \A wr \in PartialWrites :
              EventHandled(mem, call.optimized, WriteWorker, call.c,
                           ReadyMask(mem, WriteWorker, mem.conns[call.c].fd), NowTs, wr)
                = WriteCalled([mem EXCEPT !.conns[call.c].last_active = NowTs],
                              call.optimized, WriteWorker, call.c, NowTs, wr)

\* A write stopped by EAGAIN in the middle of the header after an earlier
\* EAGAIN, the record waiting for write readiness.
C25_WaitingAgainInsideHeader ==
    /\ call.fn = "write"
    /\ mem.out = [op |-> "write_wait", c |-> call.c]
    /\ call.waits >= 2
    /\ mem.conns[call.c].bytes_sent > 0
    /\ mem.conns[call.c].bytes_sent < mem.conns[call.c].resp.hdr_len
    /\ WaitsForWrite(mem, call.optimized, WriteWorker, call.c)

(***************************************************************************)
(* Error and hang-up events (worker.c:150-153, worker_optimized.c:321-324) *)
(* under Spec, the worker_loop threads.                                    *)
(***************************************************************************)
LiveStates == {STATE_READING, STATE_WRITING, STATE_KEEP_ALIVE}

\* Record c is live and registered in w's epoll set.
RegisteredLive(s, w, c) ==
    /\ s.conns[c].state \in LiveStates
    /\ s.conns[c].fd \in Fds
    /\ s.socks[s.conns[c].fd].open
    /\ s.epoll[w][s.conns[c].fd].ev # "none"
    /\ s.epoll[w][s.conns[c].fd].ptr = c

HangupEvents == {"ERR", "HUP", "RDHUP"}

\* handle_connection_event closes record c on the event mask and does
\* nothing else.
ClosesOnly(s, w, c, events, ts, wr) ==
    handle_connection_event(s, w, c, events, ts, wr)
        = Note(close_connection_from_worker([s EXCEPT !.conns[c].last_active = ts], w, c),
               "event_hup", c)

\* C26: for a connection in Reading, Writing or KeepAlive, peer half-close
\* is registered for, and a readiness event carrying EPOLLERR, EPOLLHUP or
\* EPOLLRDHUP closes and releases the connection without a read, parse or
\* write; here for worker_loop.
C26_HangupClosesWithoutIo ==
    \A w \in Workers, c \in ConnIdx :
        RegisteredLive(mem, w, c) =>
            /\ mem.epoll[w][mem.conns[c].fd].rdhup
            /\ \A h \in HangupEvents, io \in SUBSET {"IN", "OUT"}, wr \in WriteBehaviours :
                  ClosesOnly(mem, w, c, {h} \cup io, NowTs, wr)

\* The peer closed its end and worker_loop learnt of it from recv.
C26_HalfCloseSeenByRecv ==
    /\ call = NoCall
    /\ mem.out.op = "read_eof"

(***************************************************************************)
(* close_connection_from_worker (worker.c:340-349) as the worker_loop      *)
(* threads call it, under Spec.                                            *)
(***************************************************************************)
\* The entries of heap h that point to record c.
EntriesFor(s, h, c) ==
    {i \in 1..Len(s.th[h].heap) : s.th[h].nodes[s.th[h].heap[i]].conn = c}

\* This step is worker w handling a connection event for record c.
EventStepOn(w, c) ==
    /\ pc[w] = "events"
    /\ evq[w] # << >>
    /\ ~Head(evq[w]).listen
    /\ Head(evq[w]).ptr = c
    /\ evq'[w] = Tail(evq[w])

\* This step is worker w's timer_heap_process_expired closing record c.
ExpiryStepOn(w, c) ==
    /\ pc[w] = "expire"
    /\ RootExpired(mem.th[w], pnow[w])
    /\ RootConn(mem.th[w]) = c
    /\ evq' = evq
    /\ pc' = pc
    /\ mem' = timer_heap_process_expired_iter(mem, w, w)

\* The step called close_connection_from_worker on record c with an open
\* descriptor: the descriptor the record held is closed by it.
CloseReturned(w, c) ==
    /\ EventStepOn(w, c) \/ ExpiryStepOn(w, c)
    /\ mem.conns[c].fd \in Fds
    /\ mem.socks[mem.conns[c].fd].open
    /\ ~mem'.socks[mem.conns[c].fd].open

\* What the close leaves behind in memory s for record c closed by w, fd the
\* descriptor it held.
ClosedState(s, w, c, fd) ==
    /\ \A v \in Workers : s.epoll[v][fd] = NoReg
    /\ ~s.socks[fd].open
    /\ EntriesFor(s, w, c) = {}
    /\ s.conns[c].state = STATE_FREE
    /\ s.conns[c].fd = NoFd
    /\ s.conns[c].timer_node = NULL
    /\ \E i \in 1..Len(s.stack) : s.stack[i] = c
    /\ close_connection_from_worker(s, w, c) = s

\* C27: after close_connection_from_worker returns for a connection with an
\* open descriptor, the connection is deregistered from epoll, its
\* descriptor closed, it has no entry in the worker's timer heap, its state
\* is Free with fd = -1 and timer_node = null, its index is on the free
\* stack, and a second call of the close procedure changes nothing.
C27_CloseLeavesNothingBehind ==
    [][\A w \in Workers, c \in ConnIdx :
          CloseReturned(w, c) => ClosedState(mem', w, c, mem.conns[c].fd)]_vars

\* A record has just been closed after a parse error and is Free, while a
\* heap of a worker_loop thread still holds an entry that points to it.
C27_ClosedRecordStillInHeap ==
    /\ call = NoCall
    /\ mem.out.op = "read_parse_error"
    /\ mem.conns[mem.out.c].state = STATE_FREE
    /\ mem.conns[mem.out.c].fd = NoFd
    /\ \E w \in Workers : EntriesFor(mem, w, mem.out.c) # {}

(***************************************************************************)
(* Events for records that are Free or Closing (worker.c:144-146,          *)
(* worker_optimized.c:313-315), under Spec.                                *)
(***************************************************************************)
\* Event masks epoll reports: each flag alone, readable or writable with a
\* hang-up, and every flag at once.
EventMasks ==
    {{"IN"}, {"OUT"}, {"ERR"}, {"HUP"}, {"RDHUP"}, {"IN", "OUT"}, {"IN", "RDHUP"},
     {"OUT", "HUP"}, {"IN", "OUT", "ERR", "HUP", "RDHUP"}}

\* The memory as a handler finds it while timer_heap_process_expired is
\* closing record c (timer.c:162): the record is marked Closing.
MarkedClosing(s, c) ==
    IF s.conns[c].state = STATE_FREE THEN s
    ELSE [s EXCEPT !.conns[c].state = STATE_CLOSING]

\* Batches the optimized worker may hold when the event arrives.
BatchesWith(c) ==
    {NoBatch, [rd |-> <<c>>, wr |-> << >>], [rd |-> << >>, wr |-> <<c>>]}

\* Both handlers leave memory s and batch b as they are (they only note in
\* out that the event was ignored).
EventDropped(s, c, events, ts, wr) ==
    /\ \A w \in Workers :
          handle_connection_event(s, w, c, events, ts, wr) = Note(s, "event_ignored", c)
    /\ \A b \in BatchesWith(c) :
          handle_connection_event_optimized([s |-> s, b |-> b], c, events, ts, wr)
              = [s |-> Note(s, "event_ignored", c), b |-> b]

\* The records some worker holds a collected event for.
EventPending ==
    {c \in ConnIdx :
        \E w \in Workers : \E i \in 1..Len(evq[w]) :
            ~evq[w][i].listen /\ evq[w][i].ptr = c}

\* C28: a readiness event for a connection whose state is Free or Closing is
\* dropped: the handler changes no field of the record, no timer, no epoll
\* registration and no batch.  Checked for every record a collected event
\* is waiting for, with the masks of EventMasks.
C28_EventForFreeOrClosingDropped ==
    call = NoCall =>
        \A c \in EventPending :
            LET s == MarkedClosing(mem, c)
            IN  \A events \in EventMasks, wr \in WriteBehaviours :
                    EventDropped(s, c, events, NowTs, wr)

\* The worker has just dropped an event for a record that is Free while the
\* clock has moved on since the record was last active.
C28_StaleEventDropped ==
    /\ call = NoCall
    /\ mem.out.op = "event_ignored"
    /\ mem.conns[mem.out.c].state = STATE_FREE
    /\ mem.conns[mem.out.c].last_active # NowTs

(***************************************************************************)
(* Events collected by one epoll_wait and handled after the accept loop of *)
(* the same pass (worker.c:74-82), under Spec.  An event carries the       *)
(* pointer to the record (data.ptr), not the descriptor it was collected   *)
(* for.                                                                    *)
(***************************************************************************)
\* Worker w accepted a connection into record c in this pass of its loop
\* and the next event of the batch is one collected for c before that: the
\* record's descriptor has a registration in w's set that is still armed
\* (a one-shot registration that reported an event is disarmed), its timer
\* is in w's heap and nothing was read from it.
AcceptedInBatch(w, c) ==
    /\ pc[w] = "events"
    /\ evq[w] # << >>
    /\ ~Head(evq[w]).listen
    /\ Head(evq[w]).ptr = c
    /\ mem.out = [op |-> "accepted", c |-> c]
    /\ mem.conns[c].state = STATE_READING
    /\ mem.conns[c].bytes_read = 0
    /\ mem.conns[c].fd \in Fds
    /\ mem.socks[mem.conns[c].fd].open
    /\ mem.epoll[w][mem.conns[c].fd].armed
    /\ mem.epoll[w][mem.conns[c].fd].ptr = c
    /\ mem.conns[c].timer_node # NULL
    /\ mem.conns[c].timer_node.w = w

\* From memory s to memory s2 the handler ran neither do_read nor do_write
\* nor the close procedure on record c: nothing but conn->last_active
\* differs.
LeftAlone(s, s2, c) ==
    /\ s2.out.op \in {"event_ignored", "event_nothing"}
    /\ [s2 EXCEPT !.out = s.out,
                  !.conns[c].last_active = s.conns[c].last_active] = s

\* C29: an event collected for a socket whose record was closed since and
\* re-acquired by the accept loop of the same pass is not applied to the new
\* connection: handling it neither closes the new connection nor reads from
\* or writes to it.
C29_StaleEventNotApplied ==
    [][\A w \in Workers, c \in ConnIdx :
          (AcceptedInBatch(w, c) /\ EventStepOn(w, c)) => LeftAlone(mem, mem', c)]_vars

\* A worker has just accepted a connection into a record for which its
\* batch still holds an event of the connection the record held before.
C29_StaleEventNextInBatch ==
    /\ call = NoCall
    /\ \E w \in Workers, c \in ConnIdx : AcceptedInBatch(w, c)

(***************************************************************************)
(* The loop of timer_heap_process_expired (timer.c:151-166), turn by turn, *)
(* under Spec and SpecOpt.  The loop has no statement that removes the     *)
(* root: it relies on close_connection_from_worker to do so.               *)
(***************************************************************************)
\* This step is a turn of the loop run by thread w on heap h with an expired
\* root.
ExpiryTurn(w, h) ==
    /\ pc[w] = "expire"
    /\ RootExpired(mem.th[h], pnow[w])
    /\ pc' = pc
    /\ evq' = evq
    /\ mem' = timer_heap_process_expired_iter(mem, w, h)
    /\ spun' = [spun EXCEPT ![w] = (mem' = mem)]

\* The node at the root of H is no longer in H2, which is one entry shorter.
RootRemoved(H, H2) ==
    /\ Len(H2.heap) = Len(H.heap) - 1
    /\ \A i \in 1..Len(H2.heap) : H2.heap[i] # H.heap[1]

\* C30: timer_heap_process_expired terminates: every turn of its loop that
\* finds the root's deadline <= now removes the root entry from the heap it
\* processes, whatever the state of the root's connection and whichever
\* worker loop runs it.
C30_ExpiredRootIsRemoved ==
    [][\A w \in Workers, h \in HeapIds :
          ExpiryTurn(w, h) => RootRemoved(mem.th[h], mem'.th[h])]_vars

\* The loop has made a turn that changed nothing and the root it looks at
\* is still expired: every further turn is the same.
C30_ExpiryLoopSpins ==
    /\ call = NoCall
    /\ \E w \in Workers, h \in HeapIds :
          /\ pc[w] = "expire"
          /\ spun[w]
          /\ RootExpired(mem.th[h], pnow[w])
          /\ mem.conns[RootConn(mem.th[h])].state \in {STATE_FREE, STATE_CLOSING}
          /\ timer_heap_process_expired_iter(mem, w, h) = mem

(***************************************************************************)
(* A slow client: one connection accepted at time 0 whose client sends its *)
(* request in pieces while the clock runs.  The worker is as prompt as it  *)
(* can be: the clock only moves when no event is ready and no timer has    *)
(* run out.  do_read (worker.c:168-171) and do_read_optimized              *)
(* (worker_optimized.c:399-402) start with timer_heap_remove and           *)
(* timer_heap_add(REQUEST_TIMEOUT_MS).                                     *)
(***************************************************************************)
SlowHandlers == {"do_read", "do_read_optimized"}

\* The heap and the thread of the worker that serves the connection.
SlowHeap == WriteHeap(call.handler # "do_read")

InitSlow ==
    /\ \E h \in SlowHandlers :
          /\ mem = [Arrived(<< >>) EXCEPT
                      !.th = [x \in HeapIds |->
                                 IF h = "do_read" \/ x = OptHeap THEN timer_heap_init
                                 ELSE ZeroHeap]]
          /\ call = [fn |-> "slow", handler |-> h, req |-> HealthReqCL0, sent |-> 0,
                     leaked |-> 0, c |-> FirstRecord(h # "do_read")]
    /\ now = 0
    /\ nconn = 1
    /\ pc = [w \in Workers |-> "wait"]
    /\ evq = [w \in Workers |-> << >>]
    /\ pnow = [w \in Workers |-> Timespec(0, 0)]
    /\ spun = [w \in Workers |-> FALSE]
    /\ batch = NoBatch
    /\ thr = NoThreads
    /\ lfs = NoStack

\* epoll_wait returned on its timeout: one turn of the loop of
\* timer_heap_process_expired on the worker's heap.
SlowExpire ==
    /\ RootExpired(mem.th[SlowHeap], NowTs)
    /\ mem' = timer_heap_process_expired_iter(mem, WriteWorker, SlowHeap)
    /\ mem' # mem
    /\ UNCHANGED call
    /\ ReqFrame

\* Time passes while the worker sleeps in epoll_wait: nothing to accept, no
\* event ready, no timer run out.
SlowTick ==
    /\ now < MaxTicks * TickMs
    /\ mem.backlog = << >>
    /\ ~ReadReady
    /\ ~RootExpired(mem.th[SlowHeap], NowTs)
    /\ now' = now + TickMs
    /\ UNCHANGED <<mem, call, nconn, pc, evq, pnow, spun, batch, thr, lfs>>

NextSlow ==
    \/ ReqAccept
    \/ ReqSend
    \/ ReqRead
    \/ ReqReadOptimized
    \/ SlowExpire
    \/ SlowTick

SpecSlow == InitSlow /\ [][NextSlow]_vars

\* The deadline of the timer record c holds a handle to.
DeadlineOf(s, c) ==
    s.th[s.conns[c].timer_node.w].nodes[s.conns[c].timer_node.n].expiry_time

\* C31: the request deadline is set when the connection enters Reading and
\* a read that leaves the headers incomplete does not postpone it: the
\* connection accepted at time 0 is not in Reading later than
\* REQUEST_TIMEOUT_MS, however its client splits the request.
C31_ReadingEndsByDeadline ==
    call.fn = "slow" =>
        \A c \in ConnIdx :
            mem.conns[c].state = STATE_READING => now <= REQUEST_TIMEOUT_MS

\* The connection accepted at time 0 is in Reading after the deadline it
\* was given, its headers still incomplete and its timer armed for later.
C31_StillReadingPastDeadline ==
    /\ call.fn = "slow"
    /\ now > REQUEST_TIMEOUT_MS
    /\ call.sent < Len(call.req)
    /\ mem.conns[call.c].state = STATE_READING
    /\ mem.conns[call.c].bytes_read > 0
    /\ mem.conns[call.c].timer_node # NULL
    /\ TsAfter(DeadlineOf(mem, call.c), NowTs)

(***************************************************************************)
(* Shutdown as the threads see it (main.c:125-129, 226-236;                *)
(* worker.c:63-83).  call.g_running is the flag, call.blocked the workers  *)
(* that are inside epoll_wait (they tested the flag before they entered),  *)
(* call.main where main is: in its sleep loop, in pthread_join, or past    *)
(* it.  A signal is handled by one thread of the process; epoll_wait of    *)
(* that thread, if it is inside one, returns -1 with EINTR and the loop    *)
(* continues at its head.  A worker with pc "wait" that is not in          *)
(* call.blocked is at the head of its loop.                                *)
(***************************************************************************)
JoinClients == 1

\* main's thread, beside the workers.
MainThread == 0

InitJoin ==
    /\ mem = MemInit
    /\ now = 0
    /\ nconn = MaxClients - Min(MaxClients, JoinClients)
    /\ pc = [w \in Workers |-> "wait"]
    /\ evq = [w \in Workers |-> << >>]
    /\ pnow = [w \in Workers |-> Timespec(0, 0)]
    /\ spun = [w \in Workers |-> FALSE]
    /\ batch = NoBatch
    /\ thr = NoThreads
    /\ lfs = NoStack
    /\ call = [fn |-> "join", g_running |-> TRUE, blocked |-> {}, main |-> "sleep"]

JoinFrame == UNCHANGED <<now, nconn, evq, pnow, spun, batch, thr, lfs>>

\* sig_handler runs in thread t: g_running = 0; a worker interrupted inside
\* epoll_wait is back at the head of its loop (errno == EINTR: continue).
JoinSignal ==
    /\ call.g_running
    /\ \E t \in Workers \cup {MainThread} :
          call' = [call EXCEPT !.g_running = FALSE, !.blocked = @ \ {t}]
    /\ UNCHANGED <<mem, pc>>
    /\ JoinFrame

\* while (g_running) at the head of worker_loop: the worker calls epoll_wait
\* with the timeout of timer_heap_get_next_timeout, or leaves the loop,
\* runs the code after it and returns.
JoinLoopHead(w) ==
    /\ pc[w] = "wait"
    /\ w \notin call.blocked
    /\ IF call.g_running
       THEN /\ call' = [call EXCEPT !.blocked = @ \cup {w}]
            /\ UNCHANGED <<mem, pc>>
       ELSE /\ mem' = worker_loop_exit(mem, w)
            /\ pc' = [pc EXCEPT ![w] = "returned"]
            /\ UNCHANGED call
    /\ JoinFrame

\* epoll_wait of a blocked worker returns with events or on its timeout (a
\* timeout of -1 never runs out).
JoinEpollReturn(w) ==
    /\ w \in call.blocked
    /\ pc[w] = "wait"
    /\ Wakes(w)
    /\ evq' = [evq EXCEPT ![w] = ReadyEvents(mem, w)]
    /\ mem' = Disarm(mem, w)
    /\ pnow' = [pnow EXCEPT ![w] = NowTs]
    /\ pc' = [pc EXCEPT ![w] = "expire"]
    /\ spun' = [spun EXCEPT ![w] = FALSE]
    /\ call' = [call EXCEPT !.blocked = @ \ {w}]
    /\ UNCHANGED <<now, nconn, batch, thr, lfs>>

\* Time passes while every worker that has not returned sleeps in
\* epoll_wait.  The clock runs until every timer armed by then has run out.
JoinTick ==
    /\ now < MaxTicks * TickMs + REQUEST_TIMEOUT_MS
    /\ \A w \in Workers :
          pc[w] = "returned" \/ (pc[w] = "wait" /\ w \in call.blocked /\ ~Wakes(w))
    /\ now' = now + TickMs
    /\ UNCHANGED <<mem, nconn, pc, evq, pnow, spun, batch, thr, lfs, call>>

\* Clients act until the signal arrives (no socket event after it) and
\* while the clock is within MaxTicks steps.
JoinClient ==
    /\ call.g_running
    /\ now <= MaxTicks * TickMs
    /\ ClientConnect \/ ClientSend \/ ClientClose

\* main: while (g_running) sleep(1); ends.
JoinMainWakes ==
    /\ call.main = "sleep"
    /\ ~call.g_running
    /\ call' = [call EXCEPT !.main = "join"]
    /\ UNCHANGED <<mem, pc>>
    /\ JoinFrame

\* main: pthread_join has returned for every worker.
JoinMainJoined ==
    /\ call.main = "join"
    /\ \A w \in Workers : pc[w] = "returned"
    /\ call' = [call EXCEPT !.main = "joined"]
    /\ UNCHANGED <<mem, pc>>
    /\ JoinFrame

JoinWorkerStep(w) ==
    \/ JoinLoopHead(w)
    \/ JoinEpollReturn(w)
    \/ ProcessExpired(w)
    \/ HandleListen(w)
    \/ HandleConn(w)

NextJoin ==
    \/ JoinClient
    \/ JoinTick
    \/ JoinSignal
    \/ JoinMainWakes
    \/ JoinMainJoined
    \/ \E w \in Workers : JoinWorkerStep(w)

\* The steps of worker w that handle no connection event.
JoinIdleStep(w) ==
    \/ JoinLoopHead(w)
    \/ JoinEpollReturn(w)
    \/ ProcessExpired(w)
    \/ HandleListen(w)

\* Every thread keeps running and the clock keeps moving; clients and the
\* signal owe nothing.  (The handlers of connection events get no fairness
\* condition: the property below starts where no event is pending.)
SpecJoin ==
    /\ InitJoin
    /\ [][NextJoin]_vars
    /\ \A w \in Workers : WF_vars(JoinIdleStep(w))
    /\ WF_vars(JoinMainWakes \/ JoinMainJoined)
    /\ WF_vars(JoinTick)

\* The flag is cleared and no worker has anything left to do: each is at
\* the head of its loop, inside epoll_wait or has returned, its timer heap
\* is empty and nothing is ready in its epoll set.
IdleAfterSignal ==
    /\ call.fn = "join"
    /\ ~call.g_running
    /\ \A w \in Workers :
          /\ pc[w] \in {"wait", "returned"}
          /\ evq[w] = << >>
          /\ timer_heap_get_next_timeout(mem.th[w], NowTs) = -1
          /\ ReadyEvents(mem, w) = << >>

\* C32: once g_running is cleared every worker eventually leaves its loop
\* and returns, also when its timer heap is empty and no socket event
\* arrives, so main's pthread_join of every worker returns.
C32_ClearedFlagEndsEveryWorker ==
    IdleAfterSignal
        ~> (call.main = "joined" /\ \A w \in Workers : pc[w] = "returned")

\* The flag is cleared and main is in pthread_join while a worker sleeps in
\* epoll_wait with an empty timer heap (timeout -1) and nothing ready.
C32_AsleepAfterSignal ==
    /\ call.fn = "join"
    /\ ~call.g_running
    /\ call.main = "join"
    /\ \E w \in Workers :
          /\ pc[w] = "wait"
          /\ w \in call.blocked
          /\ timer_heap_get_next_timeout(mem.th[w], NowTs) = -1
          /\ ReadyEvents(mem, w) = << >>

(***************************************************************************)
(* What do_read hands to the parser (worker.c:225), under SpecReq: always  *)
(* read_buf from offset 0 with length bytes_read, on the parser of the     *)
(* record, which is initialised by connection_get and by the keep-alive    *)
(* reset, not between two read events of one request.                      *)
(***************************************************************************)
\* The record after a freshly initialised parser was given the bytes
\* received so far exactly once.
FedOnce(conn) ==
    http_parser_execute([conn EXCEPT !.parser = http_parser_init(conn.parser),
                                     !.url = << >>,
                                     !.keep_alive = 0],
                        conn.read_buf, conn.bytes_read).conn

\* C33: over the read events of one request do_read passes each received
\* byte to http_parser_execute at most once: after every call that reached
\* the parser, the parser is in the state one pass over the received bytes
\* leaves it in.
C33_EachByteParsedOnce ==
    (call.fn = "req" /\ call.handler = "do_read" /\ mem.out.op \in AfterParse)
        => mem.conns[call.c].parser = FedOnce(mem.conns[call.c]).parser

\* do_read closed the connection on a parser error after the second piece
\* of the valid healthcheck request, which one pass parses without error.
C33_ValidRequestInPiecesRejected ==
    /\ call.fn = "req" /\ call.handler = "do_read"
    /\ call.req = HealthReqCL0
    /\ call.sent = Len(call.req)
    /\ mem.out = [op |-> "read_parse_error", c |-> call.c]
    /\ mem.conns[call.c].bytes_read = Len(call.req)
    /\ FedOnce(mem.conns[call.c]).parser.http_errno = "HPE_OK"

(***************************************************************************)
(* The accept loop of handle_new_connection (worker.c:91-141), under Spec. *)
(***************************************************************************)
\* Worker w runs the body of its for loop for the listening socket.
ListenStep(w) ==
    /\ pc[w] = "events"
    /\ evq[w] # << >>
    /\ Head(evq[w]).listen
    /\ evq'[w] = Tail(evq[w])

\* In memory s descriptor fd belongs to record c as handle_new_connection
\* leaves an accepted connection: the record is in Reading, the descriptor is
\* registered in w's set for EPOLLIN | EPOLLET | EPOLLONESHOT with the
\* record as data.ptr, and the record's timer handle is a node of w's heap
\* that points back to the record.
OwnedAfterAccept(s, w, fd, c) ==
    /\ s.conns[c].fd = fd
    /\ s.conns[c].state = STATE_READING
    /\ s.epoll[w][fd] = [ev |-> "in", ptr |-> c, armed |-> TRUE, rdhup |-> FALSE]
    /\ s.conns[c].timer_node # NULL
    /\ s.conns[c].timer_node.w = w
    /\ s.th[w].nodes[s.conns[c].timer_node.n].conn = c
    /\ \E i \in 1..Len(s.th[w].heap) : s.th[w].heap[i] = s.conns[c].timer_node.n

\* Thread w runs handle_new_connection: in its loop over the events of one
\* epoll_wait, or as the first call of the request harness.
AcceptLoopBy(w) ==
    \/ ListenStep(w)
    \/ /\ call.fn = "req" /\ call.handler = "do_read"
       /\ w = WriteWorker
       /\ Len(mem'.backlog) < Len(mem.backlog)

\* Record c is in the pool's free stack of memory s.
OnFreeStack(s, c) == \E i \in 1..Len(s.stack) : s.stack[i] = c

\* C34: after the accept loop every descriptor it accepted is closed or
\* owned by a record in Reading that is registered for one-shot
\* edge-triggered read-readiness and has a request timer; no record leaves
\* the pool without owning such a descriptor; with an empty pool no record
\* is touched; after a failed epoll registration the record is Free and on
\* the free stack again and its descriptor is closed.
C34_AcceptedIsOwnedOrClosed ==
    [][\A w \in Workers :
          AcceptLoopBy(w) =>
              /\ \A fd \in Fds :
                    (mem'.socks[fd].open /\ ~mem.socks[fd].open)
                        => \E c \in ConnIdx : OwnedAfterAccept(mem', w, fd, c)
              /\ \A c \in ConnIdx :
                    OnFreeStack(mem, c) =>
                        \/ OnFreeStack(mem', c) /\ mem'.conns[c].state = STATE_FREE
                        \/ /\ mem'.conns[c].fd \in Fds
                           /\ ~mem.socks[mem'.conns[c].fd].open
                           /\ mem'.socks[mem'.conns[c].fd].open
                           /\ OwnedAfterAccept(mem', w, mem'.conns[c].fd, c)
              /\ PoolTop(mem) = 0 =>
                    /\ mem'.conns = mem.conns
                    /\ mem'.stack = mem.stack
                    /\ mem'.th = mem.th
                    /\ \A fd \in Fds : mem'.socks[fd].open = mem.socks[fd].open
              /\ mem'.out.op = "accept_add_failed" =>
                    /\ mem'.conns[mem'.out.c].state = STATE_FREE
                    /\ OnFreeStack(mem', mem'.out.c)
                    /\ mem'.used = mem.used
                    /\ \A fd \in Fds : mem'.socks[fd].open = mem.socks[fd].open]_vars

\* handle_new_connection returned while its worker's heap was at capacity:
\* the accepted descriptor is open and registered in the worker's epoll set
\* for a record in Reading that no entry of the heap belongs to.
C34_RegisteredWithoutTimer ==
    /\ call.fn = "req" /\ call.handler = "do_read"
    /\ call.sent = 0
    /\ Len(mem.th[WriteWorker].heap) = mem.th[WriteWorker].capacity
    /\ mem.out = [op |-> "accepted", c |-> call.c]
    /\ mem.backlog = << >>
    /\ mem.conns[call.c].fd \in Fds
    /\ mem.socks[mem.conns[call.c].fd].open
    /\ mem.epoll[WriteWorker][mem.conns[call.c].fd]
           = [ev |-> "in", ptr |-> call.c, armed |-> TRUE, rdhup |-> FALSE]
    /\ ~OnFreeStack(mem, call.c)
    /\ ~\E fd \in Fds : OwnedAfterAccept(mem, WriteWorker, fd, call.c)

(***************************************************************************)
(* connection_get (connection.c:46-80) called on a pool whose record went  *)
(* through request/response cycles of worker_loop: the record is in use    *)
(* (the stack may be empty) or was closed and released with whatever the   *)
(* cycle left in it.                                                       *)
(***************************************************************************)
\* Calls of connection_get in one behaviour.
MaxGets == 2

InitGet ==
    /\ \E req \in WriteRequests :
          /\ mem = Served(AcceptedBy(Arrived(req), FALSE, Timespec(0, 0)),
                          FALSE, FirstRecord(FALSE), Timespec(0, 0))
          /\ call = [fn |-> "get", optimized |-> FALSE, cycles |-> 1,
                     c |-> FirstRecord(FALSE), loop_sent |-> 0,
                     handed |-> << >>, waits |-> 0,
                     gets |-> 0, got |-> 0, was |-> ConnInit]
    /\ now = 0
    /\ nconn = 1
    /\ pc = [w \in Workers |-> "wait"]
    /\ evq = [w \in Workers |-> << >>]
    /\ pnow = [w \in Workers |-> Timespec(0, 0)]
    /\ spun = [w \in Workers |-> FALSE]
    /\ batch = NoBatch
    /\ thr = NoThreads
    /\ lfs = NoStack

\* conn = connection_get(): call.got is the index returned (0 for NULL) and
\* call.was the record at that index as it was before the call.
GetCall ==
    /\ call.gets < MaxGets
    /\ mem' = connection_get(mem)
    /\ call' = [call EXCEPT !.gets = @ + 1,
                            !.got = PoolTop(mem),
                            !.was = IF PoolTop(mem) = 0 THEN ConnInit
                                    ELSE mem.conns[PoolTop(mem)]]
    /\ WriteFrame

NextGet ==
    \/ DoWrite
    \/ NextRequest
    \/ GetCall

SpecGet == InitGet /\ [][NextGet]_vars

\* A call of connection_get returns in this step.
GetReturns == call.fn = "get" /\ call'.gets = call.gets + 1

\* C35: connection_get returns NULL and changes nothing when the free stack
\* is empty; otherwise the record it returns has state Reading, fd -1,
\* keep_alive 0, bytes_read 0, bytes_sent 0, an empty url, no timer handle
\* and a parser as http_parser_init leaves it with data pointing to the
\* record, whatever the record held, and no other record is changed.
C35_GetReturnsScrubbedRecord ==
    [][GetReturns =>
          IF mem.stack = << >>
          THEN call'.got = 0 /\ mem' = mem
          ELSE /\ call'.got = mem.stack[Len(mem.stack)]
               /\ mem'.stack = SubSeq(mem.stack, 1, Len(mem.stack) - 1)
               /\ mem'.conns[call'.got].state = STATE_READING
               /\ mem'.conns[call'.got].fd = -1
               /\ mem'.conns[call'.got].keep_alive = 0
               /\ mem'.conns[call'.got].bytes_read = 0
               /\ mem'.conns[call'.got].bytes_sent = 0
               /\ mem'.conns[call'.got].url = << >>
               /\ mem'.conns[call'.got].timer_node = NULL
               /\ mem'.conns[call'.got].parser
                      = [ParserZero EXCEPT !.state = "start_req", !.data = call'.got]
               /\ \A c \in ConnIdx \ {call'.got} : mem'.conns[c] = mem.conns[c]]_vars

\* connection_get returned a record that had been released with a request
\* in its buffer, a url, a response partly sent and keep_alive set.
C35_GotUsedRecord ==
    /\ call.fn = "get"
    /\ call.got # 0
    /\ call.was.state = STATE_FREE
    /\ call.was.bytes_read > 0
    /\ call.was.bytes_sent > 0
    /\ call.was.url # << >>
    /\ call.was.keep_alive = 1
    /\ call.was.parser # [ParserZero EXCEPT !.state = "start_req", !.data = call.got]
    /\ mem.conns[call.got].state = STATE_READING

(***************************************************************************)
(* The Connection header of the response (http_handler.c:231-248) and what *)
(* do_write and do_write_optimized do once the response has drained,       *)
(* under SpecWrite.                                                        *)
(***************************************************************************)
ErrorStatuses == {400, 404, 405, 500}

\* The connection of record c is open and waits for the next request.
KeptOpen(s, c) ==
    /\ s.conns[c].state = STATE_KEEP_ALIVE
    /\ s.conns[c].fd \in Fds
    /\ s.socks[s.conns[c].fd].open

\* C36: after dispatch the header block has 'Connection: keep-alive' with
\* 'Keep-Alive: timeout=10' exactly when keep_alive is set and
\* 'Connection: close' otherwise; every 400, 404, 405 and 500 response has
\* 'Connection: close'; when the response has drained the connection is kept
\* open exactly when the header said keep-alive, and closed and released
\* otherwise.
C36_KeptOpenIffHeaderSaidSo ==
    call.fn = "write" =>
        /\ mem.conns[call.c].state = STATE_WRITING =>
              /\ mem.conns[call.c].resp.keep_alive_hdr
                    = (IF mem.conns[call.c].keep_alive # 0
                       THEN ConnectionKeepAlive ELSE ConnectionClose)
              /\ mem.conns[call.c].resp.status \in ErrorStatuses
                    => mem.conns[call.c].resp.keep_alive_hdr = ConnectionClose
        /\ LastWriteDrained =>
              IF mem.conns[call.c].resp.keep_alive_hdr = ConnectionKeepAlive
              THEN KeptOpen(mem, call.c)
              ELSE ClosedAndReleased(mem, call.optimized, call.c)

\* The response of a 200 with 'Connection: keep-alive' has drained and
\* do_write closed the connection and released the record.
C36_KeepAliveAnnouncedThenClosed ==
    /\ LastWriteDrained
    /\ ~call.optimized
    /\ mem.conns[call.c].resp.status = 200
    /\ mem.conns[call.c].resp.keep_alive_hdr = ConnectionKeepAlive
    /\ mem.out.op = "write_closed"
    /\ ClosedAndReleased(mem, FALSE, call.c)
    /\ \A fd \in Fds : ~mem.socks[fd].open

(***************************************************************************)
(* What handle_request_and_prepare_response leaves in the record           *)
(* (http_handler.c:238-272), under SpecFn.                                 *)
(***************************************************************************)
\* The bodies response_iov[1] can point to.
StaticBodies ==
    {bonuses_json, settings_json, games_json, health_json, not_found_json,
     bad_request_json, method_not_allowed_json, internal_error_json}

\* strlen(status_text) of the status line the first snprintf formats.
StatusTextLen(status) ==
    CASE status = 200 -> 2
      [] status = 400 -> 11
      [] status = 404 -> 9
      [] status = 405 -> 18
      [] OTHER -> 21

\* C37: after handle_request_and_prepare_response returns,
\* response_iov[0].iov_len is below 512, response_iov[1] is one of the
\* static bodies with its exact length, bytes_sent is 0 and the state is
\* Writing; a response other than the canned 500 has the length the header
\* format produces, so a header block that needs 512 bytes or more is
\* always replaced by the 500 response, which has keep_alive cleared and
\* 'Connection: close'.
C37_PreparedResponseFits ==
    call.fn = "dispatch" =>
        /\ call.out.resp.hdr_len > 0
        /\ call.out.resp.hdr_len < RESPONSE_HEADERS_SIZE
        /\ call.out.resp.body \in StaticBodies
        /\ call.out.resp.body_len = Len(call.out.resp.body)
        /\ call.out.bytes_sent = 0
        /\ call.out.state = STATE_WRITING
        /\ call.out.resp.status # 500 =>
              call.out.resp.hdr_len
                  = HeaderLen(StatusTextLen(call.out.resp.status),
                              call.out.resp.body_len, call.out.keep_alive)
        /\ call.out.resp.status = 500 =>
              /\ call.out.keep_alive = 0
              /\ call.out.resp.body = internal_error_json
              /\ call.out.resp.keep_alive_hdr = ConnectionClose

\* The dispatcher prepared the longest header block it can format: a 200
\* with a two-digit Content-Length and the keep-alive pair, 192 bytes.
C37_LongestHeaderPrepared ==
    /\ call.fn = "dispatch"
    /\ call.conn.state = STATE_READING
    /\ call.out.state = STATE_WRITING
    /\ call.out.resp.status = 200
    /\ call.out.resp.body = settings_json
    /\ call.out.keep_alive = 1
    /\ call.out.resp.hdr_len = 192
    /\ \A m \in {"GET", "POST", "DELETE"}, u \in DispatchUrls, ka \in {0, 1} :
          handle_request_and_prepare_response(ParsedConn(m, u, ka)).resp.hdr_len
              <= call.out.resp.hdr_len

(***************************************************************************)
(* One read that delivers a complete header block and further bytes        *)
(* (worker.c:225-238, worker_optimized.c:440-457): the client sends a      *)
(* request and what follows it in one piece before the worker reads.       *)
(***************************************************************************)
\* "GET / HTTP/1.1\r\nContent-Length: 0\r\n\r\n"
RootReq ==
    <<71, 69, 84, 32, 47, 32, 72, 84, 84, 80, 47, 49, 46, 49, 13, 10, 67, 111, 110, 116, 101,
    110, 116, 45, 76, 101, 110, 103, 116, 104, 58, 32, 48, 13, 10, 13, 10>>

\* "GET /health HTTP/1.0\r\n\r\n": no keep-alive.
Http10Req ==
    <<71, 69, 84, 32, 47, 104, 101, 97, 108, 116, 104, 32, 72, 84, 84, 80, 47, 49, 46, 48, 13, 10, 13, 10>>

\* What the client sends after the "\r\n\r\n" of its first request: a whole
\* second request, the start of one ("GET / HTTP", "G"), an empty line, two
\* bytes that start no request ("xx").
TrailingBytes ==
    {RootReq,
     SubSeq(RootReq, 1, 10),
     SubSeq(RootReq, 1, 1),
     <<13, 10>>,
     <<120, 120>>}

\* The first request: valid, with and without keep-alive, HTTP/1.1 and 1.0.
FirstRequests == {HealthReq, HealthReqCL0, RootReq, Http10Req}

InitPipe ==
    /\ \E first \in FirstRequests, rest \in TrailingBytes, h \in ReadHandlers :
          /\ mem = Arrived(<< >>)
          /\ call = [fn |-> "pipe", handler |-> h, req |-> first \o rest,
                     first |-> Len(first), sent |-> 0, leaked |-> 0,
                     c |-> FirstRecord(h # "do_read")]
    /\ now = 0
    /\ nconn = 1
    /\ pc = [w \in Workers |-> "wait"]
    /\ evq = [w \in Workers |-> << >>]
    /\ pnow = [w \in Workers |-> Timespec(0, 0)]
    /\ spun = [w \in Workers |-> FALSE]
    /\ batch = NoBatch
    /\ thr = NoThreads
    /\ lfs = NoStack

\* The client sends the request and the bytes after it at once.
PipeSend ==
    /\ mem.conns[call.c].fd \in Fds
    /\ call.sent = 0
    /\ mem' = [mem EXCEPT !.socks[mem.conns[call.c].fd].inbuf = @ \o call.req]
    /\ call' = [call EXCEPT !.sent = Len(call.req)]
    /\ ReqFrame

NextPipe ==
    \/ ReqAccept
    \/ PipeSend
    \/ ReqRead
    \/ ReqReadOptimized
    \/ ReqScanOptimized

SpecPipe == InitPipe /\ [][NextPipe]_vars

\* The read handler returned after one read took the header block and the
\* bytes after it into read_buf.
ReadTookTrailingBytes ==
    /\ call.fn = "pipe"
    /\ call.sent = Len(call.req)
    /\ mem.out.c = call.c
    /\ mem.out.op \notin {"init", "accepted"}
    /\ mem.conns[call.c].bytes_read = Len(call.req)
    /\ SubSeq(mem.conns[call.c].read_buf, 1, Len(call.req)) = call.req

\* C38: when one read delivers a complete header block followed by further
\* bytes, the connection is closed and no response is prepared, under
\* do_read, do_read_optimized and do_read_optimized's header-end scan.
C38_TrailingBytesCloseConnection ==
    ReadTookTrailingBytes =>
        /\ mem.conns[call.c].state = STATE_FREE
        /\ mem.conns[call.c].fd = NoFd
        /\ \A fd \in Fds : ~mem.socks[fd].open
        /\ mem.conns[call.c].resp = RespZero
        /\ mem.out.op \notin Dispatched \cup {"read_dispatched", "read_rearmed"}

\* do_read parsed a keep-alive request and the whole second request behind
\* it without an error and re-armed the connection, which stays open in
\* Reading.
C38_PipelinedRequestLeftOpen ==
    /\ ReadTookTrailingBytes
    /\ call.handler = "do_read"
    /\ call.first = Len(HealthReqCL0)
    /\ call.req = HealthReqCL0 \o RootReq
    /\ mem.out.op = "read_rearmed"
    /\ mem.conns[call.c].state = STATE_READING
    /\ mem.conns[call.c].parser.http_errno = "HPE_OK"
    /\ mem.socks[mem.conns[call.c].fd].open
    /\ mem.epoll[WriteWorker][mem.conns[call.c].fd].armed

(***************************************************************************)
(* timer_heap_get_next_timeout (timer.c:135-145) on the heap of one        *)
(* worker, with CLOCK_MONOTONIC read at its nanosecond resolution: timers  *)
(* are added and removed and the timeout is asked for at clock readings    *)
(* that are not whole milliseconds.                                        *)
(***************************************************************************)
\* The clock runs from 0 to MaxSeconds seconds.
MaxSeconds == 6
\* tv_nsec of a clock reading: 0, 0.4 ms, 999.6 ms.
ClockNsec == {0, 400000, 999600000}
ClockReadings == {Timespec(sec, nsec) : sec \in 0..MaxSeconds, nsec \in ClockNsec}

\* Nanoseconds are counted in units of 100 us, which every reading is a
\* multiple of: the time from reading t to deadline e, exactly.
TenthsOfMs(e, t) ==
    (e.tv_sec - t.tv_sec) * 10000 + (e.tv_nsec - t.tv_nsec) \div 100000

InitTimeout ==
    /\ mem = MemInit
    /\ call = [fn |-> "timeout", clock |-> Timespec(0, 0), asked |-> FALSE, ret |-> 0,
               empty |-> TRUE, left |-> 0]
    /\ now = 0
    /\ nconn = 0
    /\ pc = [w \in Workers |-> "wait"]
    /\ evq = [w \in Workers |-> << >>]
    /\ pnow = [w \in Workers |-> Timespec(0, 0)]
    /\ spun = [w \in Workers |-> FALSE]
    /\ batch = NoBatch
    /\ thr = NoThreads
    /\ lfs = NoStack

\* CLOCK_MONOTONIC advances.
TimeoutClock ==
    /\ \E t \in ClockReadings :
          /\ TsLess(call.clock, t)
          /\ call' = [call EXCEPT !.clock = t, !.asked = FALSE, !.ret = 0, !.empty = TRUE, !.left = 0]
    /\ UNCHANGED mem
    /\ ReqFrame

\* timer_heap_add(&timer_heap, conn, timeout_ms) for a record without timer.
TimeoutAdd ==
    /\ \E c \in ConnIdx, timeout_ms \in {REQUEST_TIMEOUT_MS, KEEP_ALIVE_TIMEOUT_MS} :
          /\ mem.conns[c].timer_node = NULL
          /\ mem' = timer_heap_add(mem, WriteWorker, c, timeout_ms, call.clock)
    /\ call' = [call EXCEPT !.asked = FALSE, !.ret = 0, !.empty = TRUE, !.left = 0]
    /\ ReqFrame

\* timer_heap_remove(&timer_heap, conn)
TimeoutRemove ==
    /\ \E c \in ConnIdx :
          /\ mem.conns[c].timer_node # NULL
          /\ mem' = timer_heap_remove(mem, WriteWorker, c)
    /\ call' = [call EXCEPT !.asked = FALSE, !.ret = 0, !.empty = TRUE, !.left = 0]
    /\ ReqFrame

\* timeout = timer_heap_get_next_timeout(&timer_heap): call.ret is the value
\* returned, call.empty whether th->size was 0 and call.left the time from
\* the clock reading of the call to the root's deadline.
TimeoutGet ==
    /\ ~call.asked
    /\ call' = [call EXCEPT
                  !.asked = TRUE,
                  !.ret = timer_heap_get_next_timeout(mem.th[WriteWorker], call.clock),
                  !.empty = (Len(mem.th[WriteWorker].heap) = 0),
                  !.left = IF Len(mem.th[WriteWorker].heap) = 0 THEN 0
                           ELSE TenthsOfMs(Expiry(mem.th[WriteWorker], 0), call.clock)]
    /\ UNCHANGED mem
    /\ ReqFrame

NextTimeout ==
    \/ TimeoutClock
    \/ TimeoutAdd
    \/ TimeoutRemove
    \/ TimeoutGet

SpecTimeout == InitTimeout /\ [][NextTimeout]_vars

TimeoutReturned == call.fn = "timeout" /\ call.asked

\* C39: timer_heap_get_next_timeout returns -1 if and only if the heap is
\* empty; otherwise the value is not negative, is 0 when the root's deadline
\* has passed, and is never more than the time that is left to the root's
\* deadline (and less than one millisecond below it).
C39_TimeoutWithinRemainingTime ==
    TimeoutReturned =>
        /\ call.ret = -1 <=> call.empty
        /\ ~call.empty =>
              /\ call.ret >= 0
              /\ call.left <= 0 => call.ret = 0
              /\ call.left > 0 =>
                    /\ call.ret * 10 <= call.left
                    /\ call.ret * 10 > call.left - 10

\* C39 as the code has it: -1 if and only if the heap is empty; otherwise
\* the value is not negative, is 0 when the root's deadline has passed, and
\* differs from the time that is left by less than one millisecond, in
\* either direction.
C39_TimeoutWithinOneMillisecond ==
    TimeoutReturned =>
        /\ call.ret = -1 <=> call.empty
        /\ ~call.empty =>
              /\ call.ret >= 0
              /\ call.left <= 0 => call.ret = 0
              /\ call.left > 0 =>
                    /\ call.ret * 10 < call.left + 10
                    /\ call.ret * 10 > call.left - 10

\* The timeout was asked for 0.8 ms before the root's deadline and the
\* value returned is 1 ms.
C39_TimeoutPastDeadline ==
    /\ TimeoutReturned
    /\ ~call.empty
    /\ call.left = 8
    /\ call.ret = 1

(***************************************************************************)
(* The bounds of read_buf.  A client sends a request longer than the       *)
(* buffer in pieces; do_read or do_read_optimized runs whenever epoll      *)
(* reports the connection readable.                                        *)
(***************************************************************************)
\* n bytes of alternating 'a' and 'b': no space, no line end.
LongToken(n) == [i \in 1..n |-> IF i % 2 = 1 THEN 97 ELSE 98]

FillRequests ==
    {PaddedReq(MAX_REQUEST_SIZE), LongToken(BUFFER_SIZE + 1), LongToken(MAX_REQUEST_SIZE)}

FillHandlers == {"do_read", "do_read_optimized"}

\* Where the client pauses: at the start, in the middle and around the end of
\* the buffer, at the end of the request.
FillPoints(req) ==
    {1, 2, BUFFER_SIZE \div 2, BUFFER_SIZE - 1, BUFFER_SIZE, BUFFER_SIZE + 1, Len(req)}

InitFill ==
    /\ \E req \in FillRequests, h \in FillHandlers :
          /\ mem = Leaked(Arrived(<< >>), WriteHeap(h # "do_read"),
                          FirstRecord(h # "do_read"), 0)
          /\ call = [fn |-> "fill", handler |-> h, req |-> req, sent |-> 0, leaked |-> 0,
                     c |-> FirstRecord(h # "do_read")]
    /\ now = 0
    /\ nconn = 1
    /\ pc = [w \in Workers |-> "wait"]
    /\ evq = [w \in Workers |-> << >>]
    /\ pnow = [w \in Workers |-> Timespec(0, 0)]
    /\ spun = [w \in Workers |-> FALSE]
    /\ batch = NoBatch
    /\ thr = NoThreads
    /\ lfs = NoStack

\* The client sends more of its request.
FillSend ==
    /\ mem.conns[call.c].fd \in Fds
    /\ \E p \in FillPoints(call.req) :
          /\ p > call.sent
          /\ mem' = [mem EXCEPT !.socks[mem.conns[call.c].fd].inbuf =
                                    @ \o SubSeq(call.req, call.sent + 1, p)]
          /\ call' = [call EXCEPT !.sent = p]
    /\ ReqFrame

NextFill ==
    \/ ReqAccept
    \/ FillSend
    \/ ReqRead
    \/ ReqReadOptimized

SpecFill == InitFill /\ [][NextFill]_vars

\* read_buf holds bytes_read bytes, at most BUFFER_SIZE, and they are the
\* first bytes_read bytes the client sent: every recv wrote at offset
\* bytes_read and none wrote past the buffer.
ReadBufWithinBounds(c) ==
    /\ mem.conns[c].bytes_read <= BUFFER_SIZE
    /\ Len(mem.conns[c].read_buf) <= BUFFER_SIZE
    /\ Len(mem.conns[c].read_buf) = mem.conns[c].bytes_read
    /\ mem.conns[c].bytes_read <= call.sent
    /\ mem.conns[c].read_buf = SubSeq(call.req, 1, mem.conns[c].bytes_read)

\* The buffer of the open connection is full and holds no "\r\n\r\n".
BufferFull(s, c) ==
    /\ s.conns[c].fd \in Fds
    /\ s.conns[c].state \in {STATE_READING, STATE_KEEP_ALIVE}
    /\ s.conns[c].bytes_read = BUFFER_SIZE
    /\ simd_find_header_end(s.conns[c].read_buf, BUFFER_SIZE) = -1

\* A step of the read handler.
ReadAttempt == ReadReady /\ call' = call /\ mem' # mem /\ mem.backlog = << >>

\* C40: in every reachable state bytes_read <= BUFFER_SIZE and read_buf
\* holds exactly the first bytes_read bytes received, none past its end;
\* a read attempt on a connection whose buffer is full without a complete
\* header block closes the connection.
C40_ReadStaysInsideBuffer ==
    /\ [](call.fn = "fill" => ReadBufWithinBounds(call.c))
    /\ [][(call.fn = "fill" /\ BufferFull(mem, call.c) /\ ReadAttempt) =>
             /\ mem'.conns[call.c].state = STATE_FREE
             /\ mem'.conns[call.c].fd = -1
             /\ ~mem'.socks[mem.conns[call.c].fd].open
             /\ mem'.conns[call.c].bytes_read = BUFFER_SIZE
             /\ mem'.conns[call.c].read_buf = mem.conns[call.c].read_buf]_vars

\* do_read_optimized filled the buffer with the first BUFFER_SIZE bytes of a
\* longer request and closed the connection at the read attempt that
\* followed.
C40_FullBufferClosedOnNextRead ==
    /\ call.fn = "fill" /\ call.handler = "do_read_optimized"
    /\ call.req = LongToken(MAX_REQUEST_SIZE)
    /\ call.sent = MAX_REQUEST_SIZE
    /\ mem.out = [op |-> "read_closed", c |-> call.c]
    /\ mem.conns[call.c].state = STATE_FREE
    /\ mem.conns[call.c].bytes_read = BUFFER_SIZE
    /\ mem.conns[call.c].read_buf = LongToken(BUFFER_SIZE)

====
